---------------------------- MODULE Spec2Model ----------------------------
(***************************************************************************)
(* Company-name normalisation and duplicate-folder merging of OCRganizer   *)
(* (src/src/company_normalizer.py).                                        *)
(*                                                                         *)
(* A Python str is a sequence of one-character strings, so that lower(),   *)
(* strip(), the regular expressions, split() and difflib's ratio() are     *)
(* computed character by character as the code computes them.  A float     *)
(* similarity score is the exact rational [num, den] it stands for.        *)
(***************************************************************************)
EXTENDS Integers, Sequences, FiniteSets, TLC

(***************************************************************************)
(* Python str primitives                                                   *)
(***************************************************************************)
Uppers ==
    <<"A", "B", "C", "D", "E", "F", "G", "H", "I", "J", "K", "L", "M",
      "N", "O", "P", "Q", "R", "S", "T", "U", "V", "W", "X", "Y", "Z">>

Lowers ==
    <<"a", "b", "c", "d", "e", "f", "g", "h", "i", "j", "k", "l", "m",
      "n", "o", "p", "q", "r", "s", "t", "u", "v", "w", "x", "y", "z">>

Digits ==
    <<"0", "1", "2", "3", "4", "5", "6", "7", "8", "9">>

Range(f) ==
    {f[i] : i \in DOMAIN f}

\* Only({e : x \in {v}}) is e with x standing for the value of v: a value
\* that a loop carries from one turn to the next is computed once per turn
Only(S) ==
    CHOOSE x \in S : TRUE

\* the characters the regular expression class \s matches
Whitespace ==
    {" ", "\t", "\n"}

\* the characters the regular expression class \w matches (ASCII)
IsWordChar(c) ==
    c \in Range(Uppers) \cup Range(Lowers) \cup Range(Digits) \cup {"_"}

LowerChar(c) ==
    IF c \in Range(Uppers)
    THEN Lowers[CHOOSE i \in DOMAIN Uppers : Uppers[i] = c]
    ELSE c

UpperChar(c) ==
    IF c \in Range(Lowers)
    THEN Uppers[CHOOSE i \in DOMAIN Lowers : Lowers[i] = c]
    ELSE c

\* str.lower()
lower(s) ==
    [i \in 1..Len(s) |-> LowerChar(s[i])]

\* str.upper()
upper(s) ==
    [i \in 1..Len(s) |-> UpperChar(s[i])]

\* str.capitalize(): first character upper-cased, the rest lower-cased
capitalize(s) ==
    [i \in 1..Len(s) |-> IF i = 1 THEN UpperChar(s[i]) ELSE LowerChar(s[i])]

\* str.strip(chars): drop leading and trailing characters of the set cs
strip_chars(s, cs) ==
    LET keep == {i \in 1..Len(s) : s[i] \notin cs}
    IN  IF keep = {} THEN <<>>
        ELSE SubSeq(s, CHOOSE i \in keep : \A j \in keep : i <= j,
                       CHOOSE i \in keep : \A j \in keep : i >= j)

\* str.strip()
strip(s) ==
    strip_chars(s, Whitespace)

\* re.sub(<one-character class>, rep, s): every character of cs becomes rep
sub_chars(s, cs, rep) ==
    [i \in 1..Len(s) |-> IF s[i] \in cs THEN rep ELSE s[i]]

\* re.sub(r"\s+", rep, s): every maximal run of whitespace becomes rep
RECURSIVE sub_whitespace_runs(_, _)
sub_whitespace_runs(s, rep) ==
    IF s = <<>> THEN <<>>
    ELSE IF s[1] \in Whitespace
         THEN IF Len(s) > 1 /\ s[2] \in Whitespace
              THEN sub_whitespace_runs(Tail(s), rep)
              ELSE <<rep>> \o sub_whitespace_runs(Tail(s), rep)
         ELSE <<s[1]>> \o sub_whitespace_runs(Tail(s), rep)

\* index of the first character of s that is in cs, Len(s) + 1 when none
FirstIn(s, cs) ==
    LET hits == {i \in 1..Len(s) : s[i] \in cs}
    IN  IF hits = {} THEN Len(s) + 1
        ELSE CHOOSE i \in hits : \A j \in hits : i <= j

\* index of the first character of s that is not in cs, Len(s) + 1 when none
FirstNotIn(s, cs) ==
    LET hits == {i \in 1..Len(s) : s[i] \notin cs}
    IN  IF hits = {} THEN Len(s) + 1
        ELSE CHOOSE i \in hits : \A j \in hits : i <= j

\* str.split(): the maximal runs of non-whitespace, in order
RECURSIVE split(_)
split(s) ==
    LET b == FirstNotIn(s, Whitespace)
        t == SubSeq(s, b, Len(s))
        e == FirstIn(t, Whitespace)
    IN  IF t = <<>> THEN <<>>
        ELSE <<SubSeq(t, 1, e - 1)>> \o split(SubSeq(t, e, Len(t)))

\* sep.join(words)
RECURSIVE join(_, _)
join(words, sep) ==
    IF words = <<>> THEN <<>>
    ELSE IF Len(words) = 1 THEN words[1]
    ELSE words[1] \o sep \o join(Tail(words), sep)

(***************************************************************************)
(* NameCanonicalizer                                                       *)
(***************************************************************************)
common_suffixes ==
    { <<"i", "n", "c">>,
      <<"i", "n", "c", ".">>,
      <<"i", "n", "c", "o", "r", "p", "o", "r", "a", "t", "e", "d">>,
      <<"c", "o", "r", "p">>,
      <<"c", "o", "r", "p", ".">>,
      <<"c", "o", "r", "p", "o", "r", "a", "t", "i", "o", "n">>,
      <<"l", "l", "c">>,
      <<"l", ".", "l", ".", "c", ".">>,
      <<"l", "t", "d">>,
      <<"l", "t", "d", ".">>,
      <<"l", "i", "m", "i", "t", "e", "d">>,
      <<"c", "o">>,
      <<"c", "o", ".">>,
      <<"c", "o", "m", "p", "a", "n", "y">>,
      <<"b", "a", "n", "k">>,
      <<"c", "r", "e", "d", "i", "t", " ", "u", "n", "i", "o", "n">>,
      <<"f", "e", "d", "e", "r", "a", "l", " ",
        "c", "r", "e", "d", "i", "t", " ", "u", "n", "i", "o", "n">> }

common_prefixes ==
    { <<"t", "h", "e">>, <<"a">>, <<"a", "n">> }

\* while words and words[0] in self.common_prefixes: words.pop(0)
RECURSIVE pop_prefixes(_)
pop_prefixes(words) ==
    IF words # <<>> /\ words[1] \in common_prefixes
    THEN pop_prefixes(Tail(words))
    ELSE words

\* while words and words[-1] in self.common_suffixes: words.pop()
RECURSIVE pop_suffixes(_)
pop_suffixes(words) ==
    IF words # <<>> /\ words[Len(words)] \in common_suffixes
    THEN pop_suffixes(SubSeq(words, 1, Len(words) - 1))
    ELSE words

\* CompanyNormalizer._normalize_name
normalize_name(name) ==
    IF name = <<>> THEN <<>>
    ELSE LET lowered == strip(lower(name))
             nopunct == sub_chars(lowered,
                                  {c \in Range(lowered) :
                                      ~IsWordChar(c) /\ c \notin Whitespace},
                                  " ")
             normalized == strip(sub_whitespace_runs(nopunct, " "))
             words == split(normalized)
         IN  join(pop_suffixes(pop_prefixes(words)), <<" ">>)

proper_case_lower_words ==
    { <<"o", "f">>, <<"a", "n", "d">>, <<"t", "h", "e">>, <<"f", "o", "r">>,
      <<"i", "n">>, <<"o", "n">>, <<"a", "t">>, <<"b", "y">> }

proper_case_upper_words ==
    { <<"L", "L", "C">>, <<"I", "N", "C">>, <<"C", "O", "R", "P">>,
      <<"L", "T", "D">>, <<"U", "S", "A">>, <<"U", "S">>, <<"U", "K">> }

proper_case_delimiters ==
    {"-", "_", "&", "/"}

\* re.split(r"(\s+|[-_&/])", name): the texts between the delimiters and, as
\* the pattern captures them, the delimiters themselves, alternating
RECURSIVE re_split(_)
re_split(name) ==
    LET i == FirstIn(name, Whitespace \cup proper_case_delimiters)
    IN  IF i > Len(name) THEN <<name>>
        ELSE LET rest == SubSeq(name, i, Len(name))
                 n == IF name[i] \in Whitespace
                      THEN FirstNotIn(rest, Whitespace) - 1
                      ELSE 1
             IN  <<SubSeq(name, 1, i - 1), SubSeq(rest, 1, n)>>
                     \o re_split(SubSeq(rest, n + 1, Len(rest)))

proper_case_part(part) ==
    IF strip(part) # <<>>
    THEN IF lower(part) \in proper_case_lower_words THEN lower(part)
         ELSE IF upper(part) \in proper_case_upper_words THEN upper(part)
         ELSE capitalize(part)
    ELSE part

\* CompanyNormalizer._proper_case
proper_case(name) ==
    IF name = <<>> THEN name
    ELSE LET parts == re_split(name)
         IN  join([i \in 1..Len(parts) |-> proper_case_part(parts[i])], <<>>)

\* CompanyNormalizer._create_canonical_name
create_canonical_name(company_name) ==
    proper_case(strip(company_name))

\* CompanyNormalizer._folder_name_to_company_name
folder_name_to_company_name(folder_name) ==
    proper_case(sub_chars(folder_name, {"_"}, " "))

invalid_chars ==
    {"<", ">", ":", "\"", "/", "\\", "|", "?", "*"}

Unknown ==
    <<"U", "n", "k", "n", "o", "w", "n">>

\* the name with its underscores left at both ends
sanitize_name_unstripped(name) ==
    IF name = <<>> THEN Unknown
    ELSE LET replaced == sub_chars(name, invalid_chars, "_")
             joined == sub_whitespace_runs(replaced, "_")
         IN  IF joined = <<>> THEN Unknown ELSE joined

\* CompanyNormalizer._sanitize_name
sanitize_name(name) ==
    IF name = <<>> THEN Unknown
    ELSE LET replaced == sub_chars(name, invalid_chars, "_")
             joined == sub_whitespace_runs(replaced, "_")
             stripped == strip(strip_chars(joined, {"_"}))
         IN  IF stripped = <<>> THEN Unknown ELSE stripped

\* CompanyMapping._sanitize_name
CompanyMapping_sanitize_name(name) ==
    IF name = <<>> THEN Unknown
    ELSE LET replaced == sub_chars(name, invalid_chars, "_")
             joined == sub_whitespace_runs(replaced, "_")
             stripped == strip(strip_chars(joined, {"_"}))
         IN  IF stripped = <<>> THEN Unknown ELSE stripped

(***************************************************************************)
(* SimilarityScorer                                                        *)
(***************************************************************************)
\* length of the common run of a from i and b from j
RECURSIVE RunLen(_, _, _, _)
RunLen(a, b, i, j) ==
    IF i > Len(a) \/ j > Len(b) \/ a[i] # b[j] THEN 0
    ELSE 1 + RunLen(a, b, i + 1, j + 1)

\* SequenceMatcher.find_longest_match: the longest common block; of those the
\* one starting earliest in a, and of those the one starting earliest in b
find_longest_match(a, b) ==
    LET blocks == {<<i, j>> \in (1..Len(a)) \X (1..Len(b)) : a[i] = b[j]}
        size(p) == RunLen(a, b, p[1], p[2])
        best == CHOOSE p \in blocks :
                    \A q \in blocks :
                        \/ size(p) > size(q)
                        \/ /\ size(p) = size(q)
                           /\ \/ p[1] < q[1]
                              \/ p[1] = q[1] /\ p[2] <= q[2]
    IN  IF blocks = {} THEN [i |-> 1, j |-> 1, size |-> 0]
        ELSE [i |-> best[1], j |-> best[2], size |-> size(best)]

\* SequenceMatcher.get_matching_blocks: total size of the matching blocks,
\* the longest block first and then the parts left and right of it
RECURSIVE matches(_, _)
matches(a, b) ==
    IF a = <<>> \/ b = <<>> THEN 0
    ELSE LET m == find_longest_match(a, b)
         IN  IF m.size = 0 THEN 0
             ELSE m.size
                  + matches(SubSeq(a, 1, m.i - 1), SubSeq(b, 1, m.j - 1))
                  + matches(SubSeq(a, m.i + m.size, Len(a)),
                            SubSeq(b, m.j + m.size, Len(b)))

\* a score n/d; the comparisons of two scores
Score(n, d) ==
    [num |-> n, den |-> d]

ScoreGT(x, y) ==
    x.num * y.den > y.num * x.den

ScoreGE(x, y) ==
    x.num * y.den >= y.num * x.den

\* the weighted sum returned as it is, above 1.0 too
calculate_similarity_uncapped(name1, name2) ==
    IF name1 = <<>> \/ name2 = <<>> THEN Score(0, 1)
    ELSE LET M == matches(name1, name2)
             T == Len(name1) + Len(name2)
             words1 == Range(split(name1))
             words2 == Range(split(name2))
             I == Cardinality(words1 \cap words2)
             U == Cardinality(words1 \cup words2)
         IN  IF words1 # {} /\ words2 # {}
             THEN LET bonus == IF 10 * I > 8 * U THEN 2 * T * U ELSE 0
                  IN  Score(12 * M * U + 3 * I * T + bonus, 10 * T * U)
             ELSE Score(2 * M, T)

\* CompanyNormalizer._calculate_similarity
\*   basic = 2*M/T, word_overlap = I/U, subset_bonus = 0.2 iff I/U > 0.8,
\*   min(1.0, 0.6*basic + 0.3*word_overlap + subset_bonus)
\*     = min(1, (12*M*U + 3*I*T + 2*T*U [bonus]) / (10*T*U))
calculate_similarity(name1, name2) ==
    IF name1 = <<>> \/ name2 = <<>> THEN Score(0, 1)
    ELSE LET M == matches(name1, name2)
             T == Len(name1) + Len(name2)
             words1 == Range(split(name1))
             words2 == Range(split(name2))
             I == Cardinality(words1 \cap words2)
             U == Cardinality(words1 \cup words2)
         IN  IF words1 # {} /\ words2 # {}
             THEN LET bonus == IF 10 * I > 8 * U THEN 2 * T * U ELSE 0
                      n == 12 * M * U + 3 * I * T + bonus
                      d == 10 * T * U
                  IN  IF n > d THEN Score(1, 1) ELSE Score(n, d)
             ELSE Score(2 * M, T)


(***************************************************************************)
(* The inputs: company names an analysis can return and folder names a run *)
(* can find.  The two string functions every lookup goes through are       *)
(* tabulated over these names once; a name outside the tables is computed. *)
(***************************************************************************)
MaxCalls ==
    3

MaxFolders ==
    2

MaxFiles ==
    2

RawNames ==
    { <<>>,                                                \* ""
      <<" ">>,                                             \* " "
      <<" ", "n", "o", "n", "e">>,                         \* " none"
      <<" ", "b", "a", "n", "k">>,                         \* " bank"
      <<"A", "C", "M", "E">>,                              \* "ACME"
      <<"a", "c", "m", "e">>,                              \* "acme"
      <<"A", "c", "m", "e", " ", "I", "n", "c", ".">>,     \* "Acme Inc."
      <<"a", "c", "m", "e", "-", "a", "c", "m", "e">> }    \* "acme-acme"

FolderNames ==
    { <<"A", "c", "m", "e">>,                              \* "Acme"
      <<"a", "c", "m", "e">>,                              \* "acme"
      <<"A", "c", "m", "e", "_", "I", "n", "c">>,          \* "Acme_Inc"
      <<"A", "c", "m", "e", "_", "A", "c", "m", "e">>,     \* "Acme_Acme"
      <<"B", "a", "n", "k">>,                              \* "Bank"
      <<"U", "n", "k", "n", "o", "w", "n">> }              \* "Unknown"

DuplicateFolderNames ==
    { <<"A", "c", "m", "e">>,                              \* "Acme"
      <<"A", "c", "m", "e", "_", "I", "n", "c">>,          \* "Acme_Inc"
      <<"A", "c", "m", "e", "_", "A", "c", "m", "e">> }    \* "Acme_Acme"

\* three folders of which the middle one is a duplicate of both others
\* (0.95 and 0.93) while the outer two are not duplicates (0.8)
ChainFolderNames ==
    { <<"X", "_", "X">>,                                   \* "X_X"
      <<"X", "_", "X", "_", "X">>,                         \* "X_X_X"
      <<"X", "_", "X", "_", "X", "_", "X", "_", "X">> }    \* "X_X_X_X_X"

\* the words of the names given to _normalize_name: articles, legal
\* suffixes with and without punctuation, a two-word suffix, a plain word
\* and the empty word, which doubles the space between its neighbours
MaxWords ==
    3

TextWords ==
    { <<>>,                                                \* ""
      <<"T", "h", "e">>,                                   \* "The"
      <<"a", "n">>,                                        \* "an"
      <<"A", "c", "m", "e", ",">>,                         \* "Acme,"
      <<"I", "n", "c", ".">>,                              \* "Inc."
      <<"c", "o">>,                                        \* "co"
      <<"C", "r", "e", "d", "i", "t">>,                    \* "Credit"
      <<"U", "n", "i", "o", "n">> }                        \* "Union"

TextNames ==
    {join(w, <<" ">>) :
        w \in UNION {[1..n -> TextWords] : n \in 0..MaxWords}}

\* the names given to _sanitize_name: every string of up to MaxLen of these
\* characters
MaxLen ==
    3

PathChars ==
    {"a", "_", " ", "\t", "/", "?"}

PathNames ==
    UNION {[1..n -> PathChars] : n \in 0..MaxLen}

\* the normalized names given to _calculate_similarity: what
\* _normalize_name makes of up to MaxWords of these words
ScoreWords ==
    { <<"x">>, <<"x", "y">> }

ScoreNames ==
    {normalize_name(join(w, <<" ">>)) :
        w \in UNION {[1..n -> ScoreWords] : n \in 0..MaxWords}}

\* the names of a session on a directory that holds the folder a run made
\* for "Bank Inc", and the folder name given back as a company name
SessionRawNames ==
    { <<>>,                                                \* ""
      <<"A", "C", "M", "E">>,                              \* "ACME"
      <<"A", "c", "m", "e", " ", "I", "n", "c", ".">>,     \* "Acme Inc."
      <<"B", "a", "n", "k", "_", "I", "n", "c">>,          \* "Bank_Inc"
      <<" ", "b", "a", "n", "k", " ", "i", "n", "c">> }    \* " bank inc"

SessionFolderNames ==
    { <<"A", "c", "m", "e">>,                              \* "Acme"
      <<"B", "a", "n", "k", "_", "I", "n", "c">> }         \* "Bank_Inc"

\* DocumentInfo.date is None (year_only and year_month_only are never set)
NoDate ==
    [year |-> 0, month |-> 0, day |-> 0]

\* the upload folder, and the files a run can find in it
input_dir ==
    <<"i", "n", "p", "u", "t">>

InputFiles ==
    { <<"a", ".", "p", "d", "f">>, <<"b", ".", "p", "d", "f">>,
      <<"c", ".", "p", "d", "f">>, <<"d", ".", "p", "d", "f">>,
      <<"e", ".", "p", "d", "f">>, <<"f", ".", "p", "d", "f">>,
      <<"g", ".", "p", "d", "f">> }

invoice ==
    <<"i", "n", "v", "o", "i", "c", "e">>

\* AIAnalyzer.analyze_document, an external collaborator: what it answers
\* for the content of each file.  a.pdf and b.pdf are two invoices of one
\* company without date, c.pdf is dated, f.pdf and g.pdf are again two of
\* one company.
analyze_document(content) ==
    LET file == content[Len(content)]
        company_name ==
            CASE file[1] \in {"a", "b"} -> <<"A", "C", "M", "E">>
              [] file[1] = "c" -> <<"A", "c", "m", "e", " ", "I", "n", "c", ".">>
              [] file[1] = "d" -> <<"a", "c">>
              [] file[1] = "e" -> <<"a", "c", "-", "a", "c">>
              [] OTHER -> <<"a", "c", "-", "a", "c", "-", "a", "c">>
    IN  [company_name |-> company_name,
         document_type |-> invoice,
         date |-> IF file[1] = "c"
                  THEN [year |-> 2023, month |-> 1, day |-> 15]
                  ELSE NoDate]

DocumentNames ==
    {analyze_document(<<input_dir, f>>).company_name : f \in InputFiles}

\* every name a run over these inputs can hold
Names ==
    LET raw == RawNames \cup SessionRawNames \cup DocumentNames
        made == {sanitize_name(create_canonical_name(n)) : n \in DocumentNames}
    IN  raw \cup FolderNames \cup SessionFolderNames \cup {Unknown} \cup made
            \cup ChainFolderNames
            \cup {create_canonical_name(n) : n \in raw}
            \cup {folder_name_to_company_name(n) :
                      n \in FolderNames \cup SessionFolderNames \cup made
                                \cup ChainFolderNames}

normalize_name_table ==
    [n \in Names |-> normalize_name(n)] @@ <<>>

\* self._normalize_name(name)
Normalized(name) ==
    IF name \in DOMAIN normalize_name_table
    THEN normalize_name_table[name]
    ELSE normalize_name(name)

calculate_similarity_table ==
    [p \in Range(normalize_name_table) \X Range(normalize_name_table) |->
        calculate_similarity(p[1], p[2])] @@ <<>>

\* self._calculate_similarity(name1, name2)
Similarity(name1, name2) ==
    IF <<name1, name2>> \in DOMAIN calculate_similarity_table
    THEN calculate_similarity_table[<<name1, name2>>]
    ELSE calculate_similarity(name1, name2)

(***************************************************************************)
(* CompanyRegistry: the pure part of each method, on a registry given as   *)
(* an insertion-ordered dict: a sequence of entries [key, mapping].        *)
(***************************************************************************)
\* CompanyMapping: the dataclass and its __post_init__
CompanyMapping(canonical_name, variations, folder_name) ==
    [canonical_name |-> canonical_name,
     variations |-> variations,
     folder_name |-> IF folder_name = <<>>
                     THEN CompanyMapping_sanitize_name(canonical_name)
                     ELSE folder_name]

\* d[key] = value on a dict: an existing key keeps its place
DictSet(d, key, value) ==
    Only({ IF \E i \in DOMAIN dict : dict[i].key = entry.key
           THEN [i \in DOMAIN dict |->
                    IF dict[i].key = entry.key THEN entry ELSE dict[i]]
           ELSE Append(dict, entry) :
           dict \in {d}, entry \in {[key |-> key, value |-> value]} })

DictHas(d, key) ==
    \E i \in DOMAIN d : d[i].key = key

DictGet(d, key) ==
    d[CHOOSE i \in DOMAIN d : d[i].key = key].value

\* what the code tests with `if not s` / `if s`: None and "" are both false,
\* so an absent Optional[str] is the empty sequence
None ==
    <<>>

unknown_names ==
    { <<"u", "n", "k", "n", "o", "w", "n">>,
      <<"n", "u", "l", "l">>,
      <<"n", "o", "n", "e">> }

\* CompanyNormalizer._find_exact_match
find_exact_match(mappings, company_name) ==
    LET low == lower(company_name)
        hits == {i \in DOMAIN mappings :
                    low \in {lower(v) : v \in mappings[i].value.variations}}
    IN  IF DictHas(mappings, low)
        THEN DictGet(mappings, low).canonical_name
        ELSE IF hits # {}
        THEN mappings[CHOOSE i \in hits : \A j \in hits : i <= j]
                 .value.canonical_name
        ELSE None

\* the step with `score > self.similarity_threshold`
fuzzy_update_strict(best, score, threshold, canonical_name) ==
    Only({ IF ScoreGT(sc, b.best_score) /\ ScoreGT(sc, threshold)
           THEN [best_match |-> canonical_name, best_score |-> sc]
           ELSE b :
           b \in {best}, sc \in {score} })

\* one `if score > best_score and score >= self.similarity_threshold` step
fuzzy_update(best, score, threshold, canonical_name) ==
    Only({ IF ScoreGT(sc, b.best_score) /\ ScoreGE(sc, threshold)
           THEN [best_match |-> canonical_name, best_score |-> sc]
           ELSE b :
           b \in {best}, sc \in {score} })

\* the inner loop `for variation in mapping.variations`
RECURSIVE fuzzy_variations(_, _, _, _, _)
fuzzy_variations(best, todo, normalized_input, threshold, canonical_name) ==
    IF todo = {} THEN best
    ELSE Only({ fuzzy_variations(
                    fuzzy_update(best,
                                 Similarity(normalized_input,
                                            Normalized(variation)),
                                 threshold, canonical_name),
                    rest, normalized_input, threshold, canonical_name) :
                variation \in {CHOOSE v \in todo : TRUE},
                rest \in {todo \ {CHOOSE v \in todo : TRUE}} })

\* the outer loop `for canonical, mapping in self.company_mappings.items()`
RECURSIVE fuzzy_mappings(_, _, _, _, _)
fuzzy_mappings(best, mappings, i, normalized_input, threshold) ==
    IF i > Len(mappings) THEN best
    ELSE Only({ fuzzy_mappings(
                    fuzzy_variations(afterCanonical, mapping.variations,
                                     normalized_input, threshold,
                                     mapping.canonical_name),
                    mappings, i + 1, normalized_input, threshold) :
                mapping \in {mappings[i].value},
                afterCanonical \in
                    {fuzzy_update(
                         best,
                         Similarity(normalized_input,
                                    Normalized(
                                        mappings[i].value.canonical_name)),
                         threshold, mappings[i].value.canonical_name)} })

\* CompanyNormalizer._find_fuzzy_match
find_fuzzy_match(mappings, threshold, company_name) ==
    fuzzy_mappings([best_match |-> None, best_score |-> Score(0, 1)],
                   mappings, 1, Normalized(company_name), threshold)
        .best_match

\* the new mapping with the name as given for its only variation
add_new_company_original_only(reg, canonical_name, original_name) ==
    [company_mappings |->
         DictSet(reg.company_mappings, lower(canonical_name),
                 CompanyMapping(canonical_name, {original_name}, <<>>)),
     normalized_to_canonical |->
         DictSet(reg.normalized_to_canonical, Normalized(canonical_name),
                 canonical_name)]

\* CompanyNormalizer._add_new_company, on the pair of dicts
add_new_company(reg, canonical_name, original_name) ==
    [company_mappings |->
         DictSet(reg.company_mappings, lower(canonical_name),
                 CompanyMapping(canonical_name,
                                {original_name, canonical_name}, <<>>)),
     normalized_to_canonical |->
         DictSet(reg.normalized_to_canonical, Normalized(canonical_name),
                 canonical_name)]

\* CompanyNormalizer.normalize_company_name: the value returned, the
\* registry it leaves, and the return statement taken
normalize_company_name(reg, threshold, company_name) ==
    IF company_name = <<>> \/ lower(company_name) \in unknown_names
    THEN [result |-> Unknown, reg |-> reg, branch |-> "unknown"]
    ELSE Only({
        IF exact_match # None
        THEN [result |-> exact_match, reg |-> reg, branch |-> "exact"]
        ELSE Only({
            IF fuzzy_match # None
            THEN [result |-> fuzzy_match,
                  reg |-> [reg EXCEPT !.company_mappings =
                              DictSet(@, lower(fuzzy_match),
                                      [DictGet(@, lower(fuzzy_match)) EXCEPT
                                          !.variations =
                                              @ \cup {company_name}])],
                  branch |-> "fuzzy"]
            ELSE Only({
                [result |-> canonical_name,
                 reg |-> add_new_company(reg, canonical_name, company_name),
                 branch |-> "new"] :
                canonical_name \in {create_canonical_name(company_name)} }) :
            fuzzy_match \in {find_fuzzy_match(reg.company_mappings,
                                              threshold, company_name)} }) :
        exact_match \in {find_exact_match(reg.company_mappings,
                                          company_name)} })

\* the lookup under the name as given, not under its lower case
get_folder_name_as_given(reg, canonical_name) ==
    IF DictHas(reg.company_mappings, canonical_name)
    THEN DictGet(reg.company_mappings, canonical_name).folder_name
    ELSE sanitize_name(canonical_name)

\* CompanyNormalizer.get_folder_name
get_folder_name(reg, canonical_name) ==
    IF DictHas(reg.company_mappings, lower(canonical_name))
    THEN DictGet(reg.company_mappings, lower(canonical_name)).folder_name
    ELSE sanitize_name(canonical_name)

(***************************************************************************)
(* The output directory.  A path is the sequence of its names below the    *)
(* output directory; disk.dirs are the directories, disk.files maps each   *)
(* regular file to its content.                                            *)
(***************************************************************************)
IsPrefix(p, q) ==
    Len(p) <= Len(q) /\ SubSeq(q, 1, Len(p)) = p

\* Path.exists()
PathExists(d, p) ==
    p \in d.dirs \/ p \in DOMAIN d.files

\* Path.rglob("*"): everything below p
rglob(d, p) ==
    {q \in d.dirs \cup DOMAIN d.files : IsPrefix(p, q) /\ q # p}

EndsWith(s, tail) ==
    Len(s) >= Len(tail) /\ SubSeq(s, Len(s) - Len(tail) + 1, Len(s)) = tail

\* Path.rglob("*.pdf"): what the merge counts
rglob_pdf(d, p) ==
    {q \in rglob(d, p) : EndsWith(q[Len(q)], <<".", "p", "d", "f">>)}

\* index of the last "." of a name, 0 when there is none
LastDot(name) ==
    LET dots == {i \in 1..Len(name) : name[i] = "."}
    IN  IF dots = {} THEN 0 ELSE CHOOSE i \in dots : \A j \in dots : i >= j

\* PurePath.suffix: from the last dot, unless it starts or ends the name
path_suffix(name) ==
    IF 1 < LastDot(name) /\ LastDot(name) < Len(name)
    THEN SubSeq(name, LastDot(name), Len(name))
    ELSE <<>>

\* PurePath.stem
path_stem(name) ==
    IF 1 < LastDot(name) /\ LastDot(name) < Len(name)
    THEN SubSeq(name, 1, LastDot(name) - 1)
    ELSE name

\* str(counter) of a non-negative int
RECURSIVE str(_)
str(n) ==
    IF n < 10 THEN <<Digits[n + 1]>>
    ELSE str(n \div 10) \o <<Digits[(n % 10) + 1]>>

Parent(p) ==
    SubSeq(p, 1, Len(p) - 1)

Prefixes(p) ==
    {SubSeq(p, 1, n) : n \in 1..Len(p)}

\* the loop left out: stem_1 whether it exists or not
unique_target_first(d, parent, stem, suffix, counter) ==
    Append(parent, stem \o <<"_">> \o str(counter) \o suffix)

\* the `while target_path.exists()` loop of the merge: stem_1, stem_2, ...
RECURSIVE unique_target(_, _, _, _, _)
unique_target(d, parent, stem, suffix, counter) ==
    LET target_path == Append(parent, stem \o <<"_">> \o str(counter) \o suffix)
    IN  IF PathExists(d, target_path)
        THEN unique_target(d, parent, stem, suffix, counter + 1)
        ELSE target_path

\* the body of `for item in merge_folder.rglob("*")` over the regular files
\* in the order the walk yields them; fail_at > 0 is the file whose
\* shutil.move raises (0: no move raises)
RECURSIVE move_files(_, _, _, _, _, _)
move_files(d, keep_folder, merge_folder, order, i, fail_at) ==
    IF i > Len(order) THEN [raised |-> FALSE, disk |-> d]
    ELSE LET item == order[i]
             rel_path == SubSeq(item, Len(merge_folder) + 1, Len(item))
             target_path == keep_folder \o rel_path
             \* target_path.parent.mkdir(parents=True, exist_ok=True)
             \* (it raises at the first ancestor that is a regular file,
             \* having made the directories above it)
             blocked == {q \in Prefixes(Parent(target_path)) :
                            q \in DOMAIN d.files}
             mkdir_raises == blocked # {}
             mkdir == [d EXCEPT !.dirs = @ \cup
                          {q \in Prefixes(Parent(target_path)) :
                              \A b \in blocked : Len(q) < Len(b)}]
             final_path(made) ==
                 IF PathExists(made, target_path)
                 THEN unique_target(made, Parent(target_path),
                                    path_stem(target_path[Len(target_path)]),
                                    path_suffix(target_path[Len(target_path)]),
                                    1)
                 ELSE target_path
             \* shutil.move(str(item), str(target_path))
             move(made, to) ==
                 [made EXCEPT !.files =
                     [q \in (DOMAIN @ \ {item}) \cup {to} |->
                         IF q = to THEN d.files[item] ELSE @[q]]]
         IN  Only({ IF mkdir_raises \/ i = fail_at
                    THEN [raised |-> TRUE, disk |-> made]
                    ELSE Only({ move_files(moved, keep_folder, merge_folder,
                                           order, i + 1, fail_at) :
                                moved \in {move(made, final_path(made))} }) :
                    made \in {mkdir} })

\* shutil.rmtree(p)
rmtree(d, p) ==
    [d EXCEPT !.dirs = {q \in @ : ~IsPrefix(p, q)},
              !.files = [q \in {r \in DOMAIN @ : ~IsPrefix(p, r)} |-> @[q]]]

\* the first folder kept whenever it holds no fewer files
keep_first_not_fewer(d, company1, company2) ==
    Cardinality(rglob_pdf(d, <<company1.folder_name>>))
        >= Cardinality(rglob_pdf(d, <<company2.folder_name>>))

\* the choice of _merge_company_folders: which folder is kept
keep_first(d, company1, company2) ==
    LET count1 == Cardinality(rglob_pdf(d, <<company1.folder_name>>))
        count2 == Cardinality(rglob_pdf(d, <<company2.folder_name>>))
    IN  \/ count1 > count2
        \/ /\ count1 = count2
           /\ Len(company1.canonical_name) <= Len(company2.canonical_name)

\* CompanyNormalizer._merge_company_folders: the value returned and the
\* disk it leaves
merge_company_folders(d, company1, company2, order, fail_at) ==
    LET folder1 == <<company1.folder_name>>
        folder2 == <<company2.folder_name>>
    IN  IF ~PathExists(d, folder1) \/ ~PathExists(d, folder2)
        THEN [returned |-> FALSE, raised |-> FALSE, disk |-> d,
              keep_folder |-> None, merge_folder |-> None]
        ELSE Only({
            Only({
                IF loop.raised
                THEN [returned |-> FALSE, raised |-> TRUE, disk |-> loop.disk,
                      keep_folder |-> keep_folder,
                      merge_folder |-> merge_folder]
                ELSE [returned |-> TRUE, raised |-> FALSE,
                      disk |-> rmtree(loop.disk, merge_folder),
                      keep_folder |-> keep_folder,
                      merge_folder |-> merge_folder] :
                loop \in {move_files(d, keep_folder, merge_folder, order, 1,
                                     fail_at)} }) :
            keep_folder \in {IF keep_first(d, company1, company2)
                             THEN folder1 ELSE folder2},
            merge_folder \in {IF keep_first(d, company1, company2)
                              THEN folder2 ELSE folder1} })

\* the body of `for item in output_dir.iterdir()` of scan_existing_companies
RECURSIVE scan_items(_, _, _)
scan_items(reg, order, i) ==
    IF i > Len(order) THEN reg
    ELSE Only({
        scan_items(next, order, i + 1) :
        next \in {
            Only({ [company_mappings |->
                       DictSet(reg.company_mappings, lower(company_name),
                               CompanyMapping(company_name,
                                              {company_name, order[i]},
                                              order[i])),
                   normalized_to_canonical |->
                       DictSet(reg.normalized_to_canonical,
                               Normalized(company_name), company_name)] :
                   company_name \in
                       {folder_name_to_company_name(order[i])} }) } })

\* the entries of the output directory the scan does not skip
company_folders(d) ==
    {p[1] : p \in {q \in d.dirs : Len(q) = 1 /\ q[1] # Unknown}}

\* all orders in which a directory listing can yield the names of S
Orders(S) ==
    {o \in [1..Cardinality(S) -> S] : \A i, j \in DOMAIN o : o[i] = o[j] => i = j}

\* CompanyNormalizer.scan_existing_companies, for a listing order
scan_existing_companies(reg, d, order) ==
    IF ~d.exists THEN reg ELSE scan_items(reg, order, 1)

merge_threshold ==
    Score(85, 100)

\* the double loop of _auto_merge_duplicates that collects the pairs
RECURSIVE find_duplicates(_, _, _)
find_duplicates(companies, i, j) ==
    IF i > Len(companies) THEN <<>>
    ELSE IF j > Len(companies) THEN find_duplicates(companies, i + 1, i + 2)
    ELSE LET similarity ==
                 Similarity(
                     Normalized(companies[i].value.canonical_name),
                     Normalized(companies[j].value.canonical_name))
         IN  (IF ScoreGT(similarity, merge_threshold)
              THEN <<[company1 |-> companies[i].value,
                      company2 |-> companies[j].value,
                      similarity |-> similarity]>>
              ELSE <<>>)
             \o find_duplicates(companies, i, j + 1)

(***************************************************************************)
(* FileOrganizer: the pure part of each method.  A document is organized   *)
(* under the default strategy, "{company}/{year}/{month}" and              *)
(* "{company}_{type}_{date}", with company normalization enabled.          *)
(***************************************************************************)
document ==
    <<"d", "o", "c", "u", "m", "e", "n", "t">>

Unknown_Date ==
    <<"U", "n", "k", "n", "o", "w", "n", "_", "D", "a", "t", "e">>

pdf_extension ==
    <<".", "p", "d", "f">>

\* calendar.month_name[1..12]
month_name ==
    << <<"J", "a", "n", "u", "a", "r", "y">>,
       <<"F", "e", "b", "r", "u", "a", "r", "y">>,
       <<"M", "a", "r", "c", "h">>,
       <<"A", "p", "r", "i", "l">>,
       <<"M", "a", "y">>,
       <<"J", "u", "n", "e">>,
       <<"J", "u", "l", "y">>,
       <<"A", "u", "g", "u", "s", "t">>,
       <<"S", "e", "p", "t", "e", "m", "b", "e", "r">>,
       <<"O", "c", "t", "o", "b", "e", "r">>,
       <<"N", "o", "v", "e", "m", "b", "e", "r">>,
       <<"D", "e", "c", "e", "m", "b", "e", "r">> >>

\* f"{n:02d}"
two_digits(n) ==
    IF n < 10 THEN <<"0">> \o str(n) ELSE str(n)

\* FileOrganizer._format_month_folder
format_month_folder(month) ==
    two_digits(month) \o <<" ", "-", " ">> \o month_name[month]

\* date.strftime("%Y-%m-%d"), for a year of four digits
strftime(date) ==
    str(date.year) \o <<"-">> \o two_digits(date.month) \o <<"-">>
        \o two_digits(date.day)

\* FileOrganizer._sanitize_filename
sanitize_filename(filename) ==
    IF filename = <<>> THEN document
    ELSE LET base == IF EndsWith(filename, pdf_extension)
                     THEN SubSeq(filename, 1, Len(filename) - 4)
                     ELSE filename
             replaced == sub_chars(base, invalid_chars, "_")
             joined == sub_whitespace_runs(replaced, "_")
             stripped == strip(strip_chars(joined, {"_"}))
             named == IF stripped = <<>> THEN document ELSE stripped
         IN  IF Len(named) > 200 THEN SubSeq(named, 1, 200) ELSE named

\* FileOrganizer._generate_filename with use_suggested=False.  The three
\* placeholders of the pattern are replaced one after the other; no value
\* of the pool holds the text of a placeholder, so that is the values
\* joined by "_"
generate_filename(doc_info) ==
    LET company == sanitize_filename(IF doc_info.company_name = None
                                     THEN Unknown
                                     ELSE doc_info.company_name)
        type == sanitize_filename(IF doc_info.document_type = None
                                  THEN document
                                  ELSE doc_info.document_type)
        date == IF doc_info.date # NoDate THEN strftime(doc_info.date)
                ELSE Unknown_Date
        filename == sanitize_filename(company \o <<"_">> \o type \o <<"_">>
                                          \o date)
    IN  IF EndsWith(filename, pdf_extension) THEN filename
        ELSE filename \o pdf_extension

\* Path.mkdir(parents=True, exist_ok=True): it raises at the first name of
\* the path that is a regular file, having made the directories above it
mkdir_parents(d, path) ==
    LET blocked == {q \in Prefixes(path) : q \in DOMAIN d.files}
    IN  [raised |-> blocked # {},
         disk |-> [d EXCEPT !.dirs = @ \cup
                      {q \in Prefixes(path) :
                          \A b \in blocked : Len(q) < Len(b)}]]

\* FileOrganizer._create_directory_structure: the directory made, the
\* registry and the disk it leaves, and what normalize_company_name did
create_directory_structure(reg, threshold, d, doc_info) ==
    Only({
        Only({
            Only({ [target_dir |-> target_dir, reg |-> normalized.reg,
                    disk |-> made.disk, raised |-> made.raised,
                    raw |-> company_name, result |-> normalized.result,
                    branch |-> normalized.branch] :
                   made \in {mkdir_parents(d, target_dir)} }) :
            target_dir \in
                {<<get_folder_name(normalized.reg, normalized.result)>>
                     \o IF doc_info.date # NoDate
                        THEN <<str(doc_info.date.year),
                               format_month_folder(doc_info.date.month)>>
                        ELSE <<>>} }) :
        company_name \in {IF doc_info.company_name = None THEN Unknown
                          ELSE doc_info.company_name},
        normalized \in {normalize_company_name(
                            reg, threshold,
                            IF doc_info.company_name = None THEN Unknown
                            ELSE doc_info.company_name)} })

\* the loop left out: <stem>_1<ext> whether it exists or not
ensure_unique_path_first(d, path) ==
    IF ~PathExists(d, path) THEN path
    ELSE Append(Parent(path),
                path_stem(path[Len(path)]) \o <<"_", "1">>
                    \o path_suffix(path[Len(path)]))

\* the `while True` loop of _ensure_unique_path
RECURSIVE ensure_unique_counter(_, _, _, _, _)
ensure_unique_counter(d, parent, base, extension, counter) ==
    LET new_path == Append(parent, base \o <<"_">> \o str(counter)
                                       \o extension)
    IN  IF ~PathExists(d, new_path) THEN new_path
        ELSE ensure_unique_counter(d, parent, base, extension, counter + 1)

\* FileOrganizer._ensure_unique_path
ensure_unique_path(d, path) ==
    IF ~PathExists(d, path) THEN path
    ELSE ensure_unique_counter(d, Parent(path), path_stem(path[Len(path)]),
                               path_suffix(path[Len(path)]), 1)

\* organize_file, lines 86-92: the path the document will be stored at
choose_target_path(d, target_dir, doc_info) ==
    LET target_path == Append(target_dir, generate_filename(doc_info))
    IN  IF PathExists(d, target_path) THEN ensure_unique_path(d, target_path)
        ELSE target_path

\* shutil.move / shutil.copy2 of a document into the output directory: a
\* regular file already at target_path is replaced
store_file(d, target_path, content) ==
    [d EXCEPT !.files =
        [q \in DOMAIN @ \cup {target_path} |->
            IF q = target_path THEN content ELSE @[q]]]

\* any(directory.iterdir())
has_entries(d, directory) ==
    \E q \in d.dirs \cup DOMAIN d.files : Parent(q) = directory /\ q # directory

\* the directory itself removed when empty, its parents left as they are
cleanup_directory_only(d, directory) ==
    IF directory # <<>> /\ directory \in d.dirs /\ ~has_entries(d, directory)
    THEN [d EXCEPT !.dirs = @ \ {directory}]
    ELSE d

\* FileOrganizer._cleanup_empty_directories; the output directory is the
\* empty path
RECURSIVE cleanup_empty_directories(_, _)
cleanup_empty_directories(d, directory) ==
    IF directory = <<>> THEN d
    ELSE IF directory \in d.dirs /\ ~has_entries(d, directory)
    THEN Only({ IF Parent(directory) # <<>>
                THEN cleanup_empty_directories(removed, Parent(directory))
                ELSE removed :
                removed \in {[d EXCEPT !.dirs = @ \ {directory}]} })
    ELSE d

(***************************************************************************)
(* The output directories a run can start on and the thresholds a          *)
(* configuration can set.                                                  *)
(***************************************************************************)
\* paths of regular files below a company folder
FilePaths ==
    { << <<"a", ".", "p", "d", "f">> >>,                   \* a.pdf
      << <<"a", "_", "1", ".", "p", "d", "f">> >>,         \* a_1.pdf
      << <<"y">>, <<"a", ".", "p", "d", "f">> >>,          \* y/a.pdf
      << <<"y">> >>,                                       \* y
      << <<".", "p", "d", "f">> >> }                       \* .pdf

\* a folder's content: some files, none of them below another
Layouts ==
    {L \in SUBSET FilePaths :
        /\ Cardinality(L) <= MaxFiles
        /\ \A p, q \in L : IsPrefix(p, q) => p = q}

OneFileLayouts ==
    { { << <<"a", ".", "p", "d", "f">> >> } }

\* 0.0, the default 0.8, 1.0
Thresholds ==
    { Score(0, 1), Score(8, 10), Score(1, 1) }

\* the output directory holding the folders of `content`, each with the
\* files content[folder]; a file's content is the path it started at
MakeDisk(content) ==
    LET files == {<<f>> \o rel : f \in DOMAIN content, rel \in FilePaths}
                     \cap UNION {{<<f>> \o rel : rel \in content[f]} :
                                    f \in DOMAIN content}
    IN  [exists |-> TRUE,
         dirs |-> {<<f>> : f \in DOMAIN content}
                      \cup UNION {Prefixes(Parent(p)) : p \in files},
         files |-> [p \in files |-> p]]

NoDisk ==
    [exists |-> FALSE, dirs |-> {}, files |-> <<>>]

Disks(names, layouts, max) ==
    UNION {{MakeDisk(c) : c \in [S -> layouts]} :
              S \in {T \in SUBSET names : Cardinality(T) <= max}}

\* the output directories holding one folder or a pair of folders
PairDisks(names, layouts) ==
    UNION {{MakeDisk(c) : c \in [S -> layouts]} :
              S \in {{a, b} : a, b \in names}}

EmptyRegistry ==
    [company_mappings |-> <<>>, normalized_to_canonical |-> <<>>]

(***************************************************************************)
(* The state                                                               *)
(***************************************************************************)
VARIABLES
    output_dir,                \* "None" or "out": the constructor's argument
    disk,                      \* the output directory
    similarity_threshold,      \* self.similarity_threshold
    auto_merge_duplicates,     \* self.auto_merge_duplicates
    company_mappings,          \* self.company_mappings
    normalized_to_canonical,   \* self.normalized_to_canonical
    pc,                        \* where the constructor is; "ready" after it
    duplicates,                \* the pairs _auto_merge_duplicates has left
    identified,                \* the pairs it found, kept for the record
    merged_count,              \* its merged_count
    merge_log,                 \* the last _merge_company_folders call
    fs_error,                  \* a merge has raised
    calls,                     \* normalize_company_name calls so far
    last,                      \* the last call of the normalizer's API
    names,                     \* the company names the run's documents carry
    resolved,                  \* what each normalize_company_name call returned
    inbox,                     \* the upload folder: file name -> content
    organization_history,      \* self.organization_history
    organizer_log,             \* the last organize_file or undo_organization
    copy_files,                \* the copy_file argument the host passes
    session,                   \* "first", or "later" once the host restarted
    earlier,                   \* where the sessions before stored each company
    threads                    \* the request handlers of the web application

vars ==
    <<output_dir, disk, similarity_threshold, auto_merge_duplicates,
      company_mappings, normalized_to_canonical, pc, duplicates, identified,
      merged_count, merge_log, fs_error, calls, last, names, resolved,
      inbox, organization_history, organizer_log, copy_files, session,
      earlier, threads>>

organizer_vars ==
    <<inbox, organization_history, organizer_log, copy_files, session,
      earlier, threads>>

registry ==
    [company_mappings |-> company_mappings,
     normalized_to_canonical |-> normalized_to_canonical]

NoMerge ==
    [called |-> FALSE, returned |-> FALSE, raised |-> FALSE,
     keep_folder |-> None, merge_folder |-> None]

NoCall ==
    [op |-> "none", raw |-> None, result |-> None, branch |-> "none"]

\* CompanyNormalizer.__init__ up to the scan
InitWith(disks, thresholds, flags, raw_names) ==
    /\ output_dir \in {"None", "out"}
    /\ disk \in IF output_dir = "None" THEN {NoDisk} ELSE disks \cup {NoDisk}
    /\ similarity_threshold \in thresholds
    /\ auto_merge_duplicates \in flags
    /\ company_mappings = <<>>
    /\ normalized_to_canonical = <<>>
    /\ pc = "init"
    /\ duplicates = <<>>
    /\ identified = <<>>
    /\ merged_count = 0
    /\ merge_log = NoMerge
    /\ fs_error = FALSE
    /\ calls = 0
    /\ last = NoCall
    /\ names = raw_names
    /\ resolved = {}
    /\ inbox = <<>>
    /\ organization_history = <<>>
    /\ organizer_log = [op |-> "none", raised |-> FALSE,
                        original_path |-> <<>>, new_path |-> <<>>,
                        content |-> <<>>]
    /\ copy_files = FALSE
    /\ session = "first"
    /\ earlier = {}
    /\ threads = <<>>

Init ==
    InitWith(Disks(FolderNames, OneFileLayouts, MaxFolders), Thresholds,
             BOOLEAN, RawNames)

InitMerge ==
    InitWith(PairDisks(DuplicateFolderNames, Layouts)
                 \cup Disks(DuplicateFolderNames, {{}} \cup OneFileLayouts,
                            MaxFolders + 1),
             {Score(8, 10)}, {TRUE}, RawNames)

\* CompanyNormalizer.__init__: the scan, and of _auto_merge_duplicates the
\* search for duplicate pairs
Construct ==
    /\ pc = "init"
    /\ \E order \in Orders(company_folders(disk)) :
          \E scanned \in {IF output_dir = "None" THEN EmptyRegistry
                          ELSE scan_existing_companies(EmptyRegistry, disk,
                                                       order)} :
          \E found \in {IF output_dir # "None" /\ auto_merge_duplicates
                           /\ disk.exists
                        THEN find_duplicates(scanned.company_mappings, 1, 2)
                        ELSE <<>>} :
              /\ company_mappings' = scanned.company_mappings
              /\ normalized_to_canonical' = scanned.normalized_to_canonical
              /\ duplicates' = found
              /\ identified' = found
              /\ pc' = IF found = <<>> THEN "ready" ELSE "merge"
    /\ UNCHANGED <<output_dir, disk, similarity_threshold,
                   auto_merge_duplicates, merged_count, merge_log, fs_error,
                   calls, last, names, resolved, organizer_vars>>

\* the regular files a walk of the folder to merge yields
merge_items(d, company1, company2) ==
    LET merge_folder == IF keep_first(d, company1, company2)
                        THEN <<company2.folder_name>>
                        ELSE <<company1.folder_name>>
    IN  IF PathExists(d, <<company1.folder_name>>)
           /\ PathExists(d, <<company2.folder_name>>)
        THEN {q \in DOMAIN d.files : IsPrefix(merge_folder, q)}
        ELSE {}

\* one turn of the loop, were an error of the merge to leave the loop
MergeNextAborts ==
    /\ pc = "merge"
    /\ LET dup == Head(duplicates)
       IN  \E order \in Orders(merge_items(disk, dup.company1, dup.company2)) :
           \E fail_at \in 0..Len(order) :
           \E done \in {merge_company_folders(disk, dup.company1,
                                               dup.company2, order, fail_at)} :
              LET count == merged_count + IF done.returned THEN 1 ELSE 0
                  left == IF done.returned THEN Tail(duplicates) ELSE <<>>
              IN  /\ disk' = done.disk
                  /\ merged_count' = count
                  /\ merge_log' = [called |-> TRUE,
                                   returned |-> done.returned,
                                   raised |-> done.raised,
                                   keep_folder |-> done.keep_folder,
                                   merge_folder |-> done.merge_folder]
                  /\ fs_error' = (fs_error \/ done.raised)
                  /\ duplicates' = left
                  /\ pc' = IF left # <<>> THEN "merge"
                           ELSE IF count > 0 THEN "rescan" ELSE "ready"
    /\ UNCHANGED <<output_dir, similarity_threshold, auto_merge_duplicates,
                   company_mappings, normalized_to_canonical, calls, last,
                   names, resolved, identified, organizer_vars>>

\* one turn of `for dup in duplicates` of _auto_merge_duplicates
MergeNext ==
    /\ pc = "merge"
    /\ LET dup == Head(duplicates)
       IN  \E order \in Orders(merge_items(disk, dup.company1, dup.company2)) :
           \E fail_at \in 0..Len(order) :
           \E done \in {merge_company_folders(disk, dup.company1,
                                               dup.company2, order, fail_at)} :
              LET count == merged_count + IF done.returned THEN 1 ELSE 0
              IN  /\ disk' = done.disk
                  /\ merged_count' = count
                  /\ merge_log' = [called |-> TRUE,
                                   returned |-> done.returned,
                                   raised |-> done.raised,
                                   keep_folder |-> done.keep_folder,
                                   merge_folder |-> done.merge_folder]
                  /\ fs_error' = (fs_error \/ done.raised)
                  /\ duplicates' = Tail(duplicates)
                  /\ pc' = IF Tail(duplicates) # <<>> THEN "merge"
                           ELSE IF count > 0 THEN "rescan" ELSE "ready"
    /\ UNCHANGED <<output_dir, similarity_threshold, auto_merge_duplicates,
                   company_mappings, normalized_to_canonical, calls, last,
                   names, resolved, identified, organizer_vars>>

\* the end of _auto_merge_duplicates without the second scan
RescanLeftOut ==
    /\ pc = "rescan"
    /\ pc' = "ready"
    /\ UNCHANGED <<output_dir, disk, similarity_threshold,
                   auto_merge_duplicates, company_mappings,
                   normalized_to_canonical, duplicates,
                   identified, merged_count,
                   merge_log, fs_error, calls, last, names, resolved,
                   organizer_vars>>

\* the end of _auto_merge_duplicates: clear both dicts and scan again
Rescan ==
    /\ pc = "rescan"
    /\ \E order \in Orders(company_folders(disk)) :
          \E scanned \in {scan_existing_companies(EmptyRegistry, disk,
                                                   order)} :
              /\ company_mappings' = scanned.company_mappings
              /\ normalized_to_canonical' = scanned.normalized_to_canonical
    /\ pc' = "ready"
    /\ UNCHANGED <<output_dir, disk, similarity_threshold,
                   auto_merge_duplicates, duplicates,
                   identified, merged_count, merge_log,
                   fs_error, calls, last, names, resolved, organizer_vars>>

\* a call of normalize_company_name, on a name of the pool or on the name
\* the call before returned
Normalize ==
    /\ pc = "ready"
    /\ calls < MaxCalls
    /\ \E company_name \in
              names \cup IF last.op = "normalize" THEN {last.result} ELSE {} :
          \E out \in {normalize_company_name(registry, similarity_threshold,
                                              company_name)} :
              /\ company_mappings' = out.reg.company_mappings
              /\ normalized_to_canonical' = out.reg.normalized_to_canonical
              /\ last' = [op |-> "normalize", raw |-> company_name,
                          result |-> out.result, branch |-> out.branch]
              /\ resolved' = resolved \cup {[raw |-> company_name,
                                              result |-> out.result]}
    /\ calls' = calls + 1
    /\ UNCHANGED <<output_dir, disk, similarity_threshold,
                   auto_merge_duplicates, pc, duplicates,
                   identified, merged_count,
                   merge_log, fs_error, names, organizer_vars>>

\* the canonical names of the registry
canonical_names(mappings) ==
    {mappings[i].value.canonical_name : i \in DOMAIN mappings}

\* a call of get_folder_name, on a name of the pool, on a registered
\* canonical name or on the name the call before returned
GetFolderName ==
    /\ pc = "ready"
    /\ \E canonical_name \in
              names \cup canonical_names(company_mappings)
                    \cup IF last.op = "normalize" THEN {last.result} ELSE {} :
          last' = [op |-> "get_folder_name", raw |-> canonical_name,
                   result |-> get_folder_name(registry, canonical_name),
                   branch |-> IF DictHas(company_mappings,
                                         lower(canonical_name))
                              THEN "mapped" ELSE "sanitized"]
    /\ UNCHANGED <<output_dir, disk, similarity_threshold,
                   auto_merge_duplicates, company_mappings,
                   normalized_to_canonical, pc, duplicates,
                   identified, merged_count,
                   merge_log, fs_error, calls, names, resolved, organizer_vars>>

Next ==
    \/ Construct
    \/ MergeNext
    \/ Rescan
    \/ Normalize

Spec ==
    Init /\ [][Next]_vars

NextMerge ==
    \/ Construct
    \/ MergeNext
    \/ Rescan

SpecMerge ==
    InitMerge /\ [][NextMerge]_vars

\* the constructor on directories where duplicate pairs overlap
InitChain ==
    InitWith(Disks(ChainFolderNames, {{}} \cup OneFileLayouts, MaxFolders + 1),
             {Score(8, 10)}, {TRUE}, RawNames)

SpecChain ==
    InitChain /\ [][NextMerge]_vars

\* the whole life of a normalizer under the default threshold: the scan,
\* the merges, the second scan and the calls
InitRegistry ==
    InitWith(Disks(DuplicateFolderNames, OneFileLayouts, MaxFolders),
             {Score(8, 10)}, BOOLEAN, SessionRawNames)

SpecRegistry ==
    InitRegistry /\ [][Next]_vars

\* a call of _normalize_name, on a name of the pool or on the result of
\* the call before
NormalizeName ==
    /\ calls < MaxCalls
    /\ \E name \in names \cup {last.result} :
          last' = [op |-> "normalize_name", raw |-> name,
                   result |-> normalize_name(name), branch |-> "none"]
    /\ calls' = calls + 1
    /\ UNCHANGED <<output_dir, disk, similarity_threshold,
                   auto_merge_duplicates, company_mappings,
                   normalized_to_canonical, pc, duplicates, identified,
                   merged_count, merge_log, fs_error, names, resolved,
                   organizer_vars>>

\* one name given per run
InitNormalizeName ==
    \E name \in TextNames : InitWith({}, {Score(8, 10)}, {FALSE}, {name})

SpecNormalizeName ==
    InitNormalizeName /\ [][NormalizeName]_vars

\* a call of _sanitize_name, on a name of the pool or on the result of the
\* call before
SanitizeName ==
    /\ calls < MaxCalls
    /\ \E name \in names \cup {last.result} :
          last' = [op |-> "sanitize_name", raw |-> name,
                   result |-> sanitize_name(name), branch |-> "none"]
    /\ calls' = calls + 1
    /\ UNCHANGED <<output_dir, disk, similarity_threshold,
                   auto_merge_duplicates, company_mappings,
                   normalized_to_canonical, pc, duplicates, identified,
                   merged_count, merge_log, fs_error, names, resolved,
                   organizer_vars>>

\* one name given per run, to _sanitize_name and to normalize_company_name
InitSanitizeName ==
    \E name \in PathNames : InitWith({}, {Score(8, 10)}, {FALSE}, {name})

NextSanitizeName ==
    \/ Construct
    \/ Normalize
    \/ SanitizeName

SpecSanitizeName ==
    InitSanitizeName /\ [][NextSanitizeName]_vars

\* a call of _calculate_similarity on two names of the pool
CalculateSimilarity ==
    /\ calls < MaxCalls
    /\ \E name1, name2 \in names :
          last' = [op |-> "calculate_similarity", raw |-> <<name1, name2>>,
                   result |-> calculate_similarity(name1, name2),
                   branch |-> "none"]
    /\ calls' = calls + 1
    /\ UNCHANGED <<output_dir, disk, similarity_threshold,
                   auto_merge_duplicates, company_mappings,
                   normalized_to_canonical, pc, duplicates, identified,
                   merged_count, merge_log, fs_error, names, resolved,
                   organizer_vars>>

\* two names given per run
InitSimilarity ==
    \E name1, name2 \in ScoreNames :
        InitWith({}, {Score(8, 10)}, {FALSE}, {name1, name2})

SpecSimilarity ==
    InitSimilarity /\ [][CalculateSimilarity]_vars

\* a normalizer constructed without output directory, or on one that is
\* missing or holds no company folder, and the calls made on it
InitFresh ==
    InitWith(Disks({Unknown}, OneFileLayouts, MaxFolders), Thresholds,
             BOOLEAN, RawNames)

NextFresh ==
    \/ Construct
    \/ Normalize

SpecFresh ==
    InitFresh /\ [][NextFresh]_vars

\* a normalizer constructed without auto-merge on a directory of earlier
\* runs, and the calls of both API methods made on it
InitSession ==
    InitWith(Disks(SessionFolderNames, OneFileLayouts, MaxFolders),
             {Score(8, 10)}, {FALSE}, SessionRawNames)

NextSession ==
    \/ Construct
    \/ Normalize
    \/ GetFolderName

SpecSession ==
    InitSession /\ [][NextSession]_vars

(***************************************************************************)
(* FileOrganizer, constructed by the host on the output directory (which   *)
(* its __init__ creates) with the default threshold and auto-merge.        *)
(***************************************************************************)
\* organization_history.append(...) of a document
history_entry(file, target_path, doc_info) ==
    [original_path |-> file, new_path |-> target_path, doc_info |-> doc_info]

\* FileOrganizer.organize_file as one call: the directory, the name, the
\* move or copy and the history entry
Organize ==
    /\ pc = "ready"
    /\ output_dir = "out"
    /\ disk.exists
    /\ calls < MaxCalls
    /\ \E file \in DOMAIN inbox :
       \E doc_info \in {analyze_document(inbox[file])} :
       \E created \in {create_directory_structure(
                           registry, similarity_threshold, disk, doc_info)} :
          /\ company_mappings' = created.reg.company_mappings
          /\ normalized_to_canonical' = created.reg.normalized_to_canonical
          /\ last' = [op |-> "normalize", raw |-> created.raw,
                      result |-> created.result, branch |-> created.branch]
          /\ resolved' = resolved \cup {[raw |-> created.raw,
                                          result |-> created.result]}
          /\ IF created.raised
             THEN /\ disk' = created.disk
                  /\ organizer_log' = [op |-> "organize", raised |-> TRUE,
                                       original_path |-> file,
                                       new_path |-> <<>>,
                                       content |-> inbox[file]]
                  /\ UNCHANGED <<inbox, organization_history>>
             ELSE \E target_path \in {choose_target_path(
                                          created.disk, created.target_dir,
                                          doc_info)} :
                  /\ disk' = store_file(created.disk, target_path,
                                        inbox[file])
                  /\ inbox' = IF copy_files THEN inbox
                              ELSE [f \in DOMAIN inbox \ {file} |-> inbox[f]]
                  /\ organization_history' =
                         Append(organization_history,
                                history_entry(file, target_path, doc_info))
                  /\ organizer_log' = [op |-> "organize", raised |-> FALSE,
                                       original_path |-> file,
                                       new_path |-> target_path,
                                       content |-> inbox[file]]
    /\ calls' = calls + 1
    /\ UNCHANGED <<output_dir, similarity_threshold, auto_merge_duplicates,
                   pc, duplicates,
                   identified, merged_count, merge_log, fs_error, names,
                   copy_files, session, earlier, threads>>

\* FileOrganizer.undo_organization(new_path, original_path) on an entry of
\* the history whose file is there (on one whose file is gone it raises
\* FileNotFoundError and changes nothing)
Undo ==
    /\ pc = "ready"
    /\ output_dir = "out"
    /\ \E i \in DOMAIN organization_history :
       \E organized_path \in {organization_history[i].new_path} :
       \E original_path \in {organization_history[i].original_path} :
          /\ organized_path \in DOMAIN disk.files
          /\ inbox' = [f \in DOMAIN inbox \cup {original_path} |->
                          IF f = original_path
                          THEN disk.files[organized_path] ELSE inbox[f]]
          /\ \E moved \in {[disk EXCEPT !.files =
                               [q \in DOMAIN @ \ {organized_path} |-> @[q]]]} :
                disk' = cleanup_empty_directories(moved,
                                                  Parent(organized_path))
          /\ organizer_log' = [op |-> "undo", raised |-> FALSE,
                               original_path |-> original_path,
                               new_path |-> organized_path,
                               content |-> disk.files[organized_path]]
    /\ UNCHANGED <<output_dir, similarity_threshold, auto_merge_duplicates,
                   company_mappings, normalized_to_canonical, pc, duplicates,
                   identified,
                   merged_count, merge_log, fs_error, calls, last, names,
                   resolved, organization_history, copy_files, session,
                   earlier, threads>>

\* preview_organization of the web application and the --dry-run branch
\* of the command line: the destination computed by
\* _create_directory_structure and _generate_filename, the file left alone
Preview ==
    /\ pc = "ready"
    /\ output_dir = "out"
    /\ disk.exists
    /\ calls < MaxCalls
    /\ \E file \in DOMAIN inbox :
       \E doc_info \in {analyze_document(inbox[file])} :
       \E created \in {create_directory_structure(
                           registry, similarity_threshold, disk, doc_info)} :
          /\ company_mappings' = created.reg.company_mappings
          /\ normalized_to_canonical' = created.reg.normalized_to_canonical
          /\ last' = [op |-> "normalize", raw |-> created.raw,
                      result |-> created.result, branch |-> created.branch]
          /\ resolved' = resolved \cup {[raw |-> created.raw,
                                          result |-> created.result]}
          /\ disk' = created.disk
          /\ organizer_log' =
                 [op |-> "preview", raised |-> created.raised,
                  original_path |-> file,
                  new_path |-> IF created.raised THEN <<>>
                               ELSE Append(created.target_dir,
                                           generate_filename(doc_info)),
                  content |-> inbox[file]]
    /\ calls' = calls + 1
    /\ UNCHANGED <<output_dir, similarity_threshold, auto_merge_duplicates,
                   pc, duplicates, identified, merged_count, merge_log,
                   fs_error, names, inbox, organization_history, copy_files,
                   session, earlier, threads>>

NoMove ==
    [op |-> "none", raised |-> FALSE, original_path |-> <<>>,
     new_path |-> <<>>, content |-> <<>>]

\* the host ends and is started again on the same directories: app.py
\* builds a new FileOrganizer, whose normalizer scans what is there
Restart ==
    /\ pc = "ready"
    /\ output_dir = "out"
    /\ session = "first"
    /\ session' = "later"
    /\ earlier' = earlier \cup
           {[company_name |-> organization_history[i].doc_info.company_name,
             folder |-> organization_history[i].new_path[1]] :
                i \in DOMAIN organization_history}
    /\ pc' = "init"
    /\ company_mappings' = <<>>
    /\ normalized_to_canonical' = <<>>
    /\ duplicates' = <<>>
    /\ identified' = <<>>
    /\ merged_count' = 0
    /\ merge_log' = NoMerge
    /\ fs_error' = FALSE
    /\ calls' = 0
    /\ last' = NoCall
    /\ resolved' = {}
    /\ organization_history' = <<>>
    /\ organizer_log' = NoMove
    /\ UNCHANGED <<output_dir, disk, similarity_threshold,
                   auto_merge_duplicates, names, inbox, copy_files, threads>>

(***************************************************************************)
(* The web application: app.run() serves each request on a thread of its   *)
(* own, and the handlers share the one module-level FileOrganizer.  A      *)
(* handler of /api/process_single goes through organize_file step by step; *)
(* the steps of two handlers interleave.                                   *)
(***************************************************************************)
Handlers ==
    {"h1", "h2"}

Idle ==
    [pc |-> "idle", file |-> <<>>, doc_info |-> analyze_document(<<input_dir>>),
     target_dir |-> <<>>, target_path |-> <<>>]

\* process_single_pdf up to the call of organize_file: the file is there,
\* it is read and analysed
Receive(t) ==
    /\ pc = "ready"
    /\ threads[t].pc = "idle"
    /\ \E file \in DOMAIN inbox :
          threads' = [threads EXCEPT ![t] =
                         [pc |-> "create", file |-> file,
                          doc_info |-> analyze_document(inbox[file]),
                          target_dir |-> <<>>, target_path |-> <<>>]]
    /\ UNCHANGED <<output_dir, disk, similarity_threshold,
                   auto_merge_duplicates, company_mappings,
                   normalized_to_canonical, pc, duplicates,
                   identified, merged_count,
                   merge_log, fs_error, calls, last, names, resolved, inbox,
                   organization_history, organizer_log, copy_files, session,
                   earlier>>

\* organize_file, line 84: _create_directory_structure
CreateDirectory(t) ==
    /\ threads[t].pc = "create"
    /\ \E created \in {create_directory_structure(
                           registry, similarity_threshold, disk,
                           threads[t].doc_info)} :
          /\ company_mappings' = created.reg.company_mappings
          /\ normalized_to_canonical' = created.reg.normalized_to_canonical
          /\ last' = [op |-> "normalize", raw |-> created.raw,
                      result |-> created.result, branch |-> created.branch]
          /\ resolved' = resolved \cup {[raw |-> created.raw,
                                          result |-> created.result]}
          /\ disk' = created.disk
          /\ threads' = [threads EXCEPT
                            ![t].pc = IF created.raised THEN "failed"
                                      ELSE "choose",
                            ![t].target_dir = created.target_dir]
    /\ calls' = calls + 1
    /\ UNCHANGED <<output_dir, similarity_threshold, auto_merge_duplicates,
                   pc, duplicates,
                   identified, merged_count, merge_log, fs_error, names,
                   inbox, organization_history, organizer_log, copy_files,
                   session, earlier>>

\* organize_file, lines 87-92: the file name, the test whether the path
\* exists, and _ensure_unique_path
ChooseTarget(t) ==
    /\ threads[t].pc = "choose"
    /\ threads' = [threads EXCEPT
                      ![t].pc = "move",
                      ![t].target_path =
                          choose_target_path(disk, threads[t].target_dir,
                                             threads[t].doc_info)]
    /\ UNCHANGED <<output_dir, disk, similarity_threshold,
                   auto_merge_duplicates, company_mappings,
                   normalized_to_canonical, pc, duplicates,
                   identified, merged_count,
                   merge_log, fs_error, calls, last, names, resolved, inbox,
                   organization_history, organizer_log, copy_files, session,
                   earlier>>

\* organize_file, lines 95-112: shutil.move or shutil.copy2 (either raises
\* when the other handler has moved the source away) and the history entry
MoveFile(t) ==
    /\ threads[t].pc = "move"
    /\ \E file \in {threads[t].file} :
       \E target_path \in {threads[t].target_path} :
          IF file \in DOMAIN inbox
          THEN /\ disk' = store_file(disk, target_path, inbox[file])
               /\ inbox' = IF copy_files THEN inbox
                           ELSE [f \in DOMAIN inbox \ {file} |-> inbox[f]]
               /\ organization_history' =
                      Append(organization_history,
                             history_entry(file, target_path,
                                           threads[t].doc_info))
               /\ organizer_log' = [op |-> "organize", raised |-> FALSE,
                                    original_path |-> file,
                                    new_path |-> target_path,
                                    content |-> inbox[file]]
               /\ threads' = [threads EXCEPT ![t].pc = "done"]
          ELSE /\ organizer_log' = [op |-> "organize", raised |-> TRUE,
                                    original_path |-> file,
                                    new_path |-> <<>>, content |-> <<>>]
               /\ threads' = [threads EXCEPT ![t].pc = "failed"]
               /\ UNCHANGED <<disk, inbox, organization_history>>
    /\ UNCHANGED <<output_dir, similarity_threshold, auto_merge_duplicates,
                   company_mappings, normalized_to_canonical, pc, duplicates,
                   identified,
                   merged_count, merge_log, fs_error, calls, last, names,
                   resolved, copy_files, session, earlier>>

\* the output directories a FileOrganizer was constructed on, the files
\* waiting in the upload folder and the way the host stores them
InitOrganizer(disks, files, modes) ==
    /\ output_dir = "out"
    /\ disk \in disks
    /\ similarity_threshold = Score(8, 10)
    /\ auto_merge_duplicates = TRUE
    /\ company_mappings = <<>>
    /\ normalized_to_canonical = <<>>
    /\ pc = "init"
    /\ duplicates = <<>>
    /\ identified = <<>>
    /\ merged_count = 0
    /\ merge_log = NoMerge
    /\ fs_error = FALSE
    /\ calls = 0
    /\ last = NoCall
    /\ names = DocumentNames
    /\ resolved = {}
    /\ inbox \in {[f \in F |-> <<input_dir, f>>] : F \in files}
    /\ organization_history = <<>>
    /\ organizer_log = NoMove
    /\ copy_files \in modes
    /\ session = "first"
    /\ earlier = {}
    /\ threads = [t \in Handlers |-> Idle]

\* one session of organizing and undoing
InitOrganize ==
    InitOrganizer(Disks({<<"A", "c", "m", "e">>}, {{}} \cup OneFileLayouts,
                        MaxFolders),
                  {{f \in InputFiles : f[1] \in {"a", "b", "c"}}}, BOOLEAN)

NextOrganize ==
    \/ Construct
    \/ Organize
    \/ Undo

SpecOrganize ==
    InitOrganize /\ [][NextOrganize]_vars

\* a session of previews and real runs
NextPreview ==
    \/ Construct
    \/ Preview
    \/ Organize

SpecPreview ==
    InitOrganize /\ [][NextPreview]_vars

\* two sessions that move documents into a directory that starts empty
InitSessions ==
    InitOrganizer({MakeDisk(<<>>)},
                  {{f \in InputFiles : f[1] \in {"d", "e", "f", "g"}}},
                  {FALSE})

NextSessions ==
    \/ Construct
    \/ Organize
    \/ Restart

SpecSessions ==
    InitSessions /\ [][NextSessions]_vars

\* two requests served at once
InitThreads ==
    InitOrganizer(Disks({<<"A", "c", "m", "e">>}, {{}} \cup OneFileLayouts,
                        MaxFolders),
                  {{f \in InputFiles : f[1] \in {"a", "b", "c"}}}, BOOLEAN)

NextThreads ==
    \/ Construct
    \/ \E t \in Handlers : Receive(t)
    \/ \E t \in Handlers : CreateDirectory(t)
    \/ \E t \in Handlers : ChooseTarget(t)
    \/ \E t \in Handlers : MoveFile(t)

SpecThreads ==
    InitThreads /\ [][NextThreads]_vars

(***************************************************************************)
(* Properties of normalize_company_name.  A step with calls' = calls + 1   *)
(* is one call: last'.raw is its argument, last'.result the value it       *)
(* returns, and the unprimed registry the one it was called on.            *)
(***************************************************************************)
IsCall ==
    calls' = calls + 1

\* the names the first check of normalize_company_name answers "Unknown" to
IsUnknownName(x) ==
    x = <<>> \/ lower(x) \in unknown_names

RegistryUnchanged ==
    /\ company_mappings' = company_mappings
    /\ normalized_to_canonical' = normalized_to_canonical

\* the names a company is known by
KnownNames(m) ==
    {m.canonical_name} \cup m.variations

\* the similarity of raw name x to the name v of a company
NameScore(x, v) ==
    Similarity(Normalized(x), Normalized(v))

\* the score of company m for x, its best over its names, is at least s
CompanyScoreGE(x, m, s) ==
    \E v \in KnownNames(m) : ScoreGE(NameScore(x, v), s)

\* the score of company m for x is above s
CompanyScoreGT(x, m, s) ==
    \E v \in KnownNames(m) : ScoreGT(NameScore(x, v), s)

\* C1 -- idempotence of normalize: a call of normalize on the name the call
\* before it returned returns that name again.
C1_Idempotent ==
    [][(IsCall /\ last.op = "normalize" /\ last'.raw = last.result)
          => last'.result = last.result]_vars

\* C2 -- the threshold governs fuzzy matching: a call whose name is not an
\* "Unknown" name and has no exact match resolves to an existing company if
\* and only if some registered company's score for it is at least the
\* threshold, and creates a new company otherwise.
C2_ThresholdGoverns ==
    [][(IsCall /\ last'.branch \in {"fuzzy", "new"})
          => (last'.branch = "fuzzy"
                <=> \E i \in DOMAIN company_mappings :
                       CompanyScoreGE(last'.raw, company_mappings[i].value,
                                      similarity_threshold))]_vars

\* company i of ms is the one C9 names for x: no company scores higher and
\* every company registered before it scores lower
BestCompany(x, ms, i) ==
    /\ \A j \in DOMAIN ms : \A v \in KnownNames(ms[j].value) :
          CompanyScoreGE(x, ms[i].value, NameScore(x, v))
    /\ \A j \in 1..(i - 1) : \A v \in KnownNames(ms[j].value) :
          CompanyScoreGT(x, ms[i].value, NameScore(x, v))

\* the call returned company i of ms and added x to its variations only
SelectedCompany(x, ms, i) ==
    /\ last'.result = ms[i].value.canonical_name
    /\ Len(company_mappings') = Len(ms)
    /\ \A j \in DOMAIN ms :
          company_mappings'[j] =
              IF j = i THEN [ms[j] EXCEPT !.value.variations = @ \cup {x}]
              ELSE ms[j]

\* C9 -- the best fuzzy match wins: when a name without exact match is
\* normalized and some registered companies reach the threshold, the first
\* registered company among those of highest score is returned, and the
\* name is added to its variations and to no other company's.
C9_BestMatchWins ==
    [][(/\ IsCall
        /\ last'.branch \in {"fuzzy", "new"}
        /\ \E i \in DOMAIN company_mappings :
              CompanyScoreGE(last'.raw, company_mappings[i].value,
                             similarity_threshold))
          => \E i \in DOMAIN company_mappings :
                /\ BestCompany(last'.raw, company_mappings, i)
                /\ SelectedCompany(last'.raw, company_mappings, i)]_vars

\* the raw name of the call equals, whatever the letter case, a name of m
ExactlyNames(x, m) ==
    lower(x) \in {lower(v) : v \in KnownNames(m)}

\* the call returns the canonical name of every company its argument names
\* exactly, and leaves the registry as it was
ReturnsExactMatch ==
    \A i \in DOMAIN company_mappings :
       ExactlyNames(last'.raw, company_mappings[i].value)
          => /\ last'.result = company_mappings[i].value.canonical_name
             /\ RegistryUnchanged

\* C7 -- exact match: a raw name that passes the "Unknown" check (it is not
\* empty and not one of unknown, null, none) and equals, case-insensitively,
\* the canonical name or a variation of a registered company is answered
\* with that company's canonical name, whatever the threshold, and the
\* registry is left unchanged.
C7_ExactMatch ==
    [][(IsCall /\ ~IsUnknownName(last'.raw)) => ReturnsExactMatch]_vars

\* C8 -- input anomalies degrade to "Unknown": no call returns an empty
\* name, and a call on an empty name or on unknown, null or none in any
\* letter case returns "Unknown" and leaves the registry unchanged.
C8_InputAnomalies ==
    [][IsCall =>
          /\ last'.result # <<>>
          /\ IsUnknownName(last'.raw)
                => (last'.result = Unknown /\ RegistryUnchanged)]_vars

\* C10 -- no match registers a new company: a call that finds neither an
\* exact nor a fuzzy match returns properCase(trim(x)), the registry grows
\* by exactly one company, which has that canonical name and the
\* variations {x, canonical name}, and every company registered before is
\* left as it was.
C10_NewCompany ==
    [][(IsCall /\ last'.branch = "new") =>
          /\ last'.result = proper_case(strip(last'.raw))
          /\ Len(company_mappings') = Len(company_mappings) + 1
          /\ \A i \in DOMAIN company_mappings :
                company_mappings'[i] = company_mappings[i]
          /\ company_mappings'[Len(company_mappings')].value.canonical_name
                 = last'.result
          /\ company_mappings'[Len(company_mappings')].value.variations
                 = {last'.raw, last'.result}]_vars

\* two calls in a row on names of one non-empty normalized form
SameNormalizedForm ==
    /\ IsCall
    /\ last.op = "normalize"
    /\ Normalized(last.raw) = Normalized(last'.raw)
    /\ Normalized(last'.raw) # <<>>

\* exactly one company is known by either name of the two calls, it is the
\* one returned, and its variations hold both names: as given, or up to
\* letter case
OneCompanyForBoth(as_given) ==
    \E i \in DOMAIN company_mappings' :
       /\ company_mappings'[i].value.canonical_name = last'.result
       /\ IF as_given
          THEN {last.raw, last'.raw}
                   \subseteq company_mappings'[i].value.variations
          ELSE {lower(last.raw), lower(last'.raw)} \subseteq
                   {lower(v) : v \in company_mappings'[i].value.variations}
       /\ \A j \in DOMAIN company_mappings' :
             (\E x \in {last.raw, last'.raw} :
                 ExactlyNames(x, company_mappings'[j].value))
                => j = i

\* C6 as the claim states it -- name variants collapse to one company: two
\* names of one non-empty normalized form, normalized one after the other,
\* get the same canonical name, and exactly one company stands for them,
\* whose variations contain both names.
C6_AsStated ==
    [][SameNormalizedForm
          => (last'.result = last.result /\ OneCompanyForBoth(TRUE))]_vars

\* C6 -- name variants collapse to one company, on a registry that starts
\* empty and for names that are not unknown, null or none: two names of
\* one non-empty normalized form, normalized one after the other, get the
\* same canonical name for any threshold, and the registry then holds
\* exactly one company, whose variations contain both names up to letter
\* case.
C6_VariantsCollapse ==
    [][(/\ SameNormalizedForm
        /\ calls = 1
        /\ company_folders(disk) = {}
        /\ ~IsUnknownName(last.raw)
        /\ ~IsUnknownName(last'.raw))
          => /\ last'.result = last.result
             /\ Len(company_mappings') = 1
             /\ OneCompanyForBoth(FALSE)]_vars

\* on a registry that started empty the second call was given the first
\* call's name in another letter case and found the company of the first
C6_Witness ==
    /\ calls = 2
    /\ company_folders(disk) = {}
    /\ Len(company_mappings) = 1
    /\ last.branch = "exact"
    /\ last.result = company_mappings[1].value.canonical_name
    /\ last.raw \notin company_mappings[1].value.variations
    /\ \E v \in company_mappings[1].value.variations :
          /\ v # last.raw
          /\ lower(v) = lower(last.raw)
          /\ Normalized(v) = Normalized(last.raw)
          /\ Normalized(v) # <<>>

(***************************************************************************)
(* Properties of the merges at start-up.  A step at pc = "merge" is one    *)
(* call of _merge_company_folders: disk is the directory before it, disk'  *)
(* the directory after it, merge_log' what it did.                         *)
(***************************************************************************)
\* the PDF files below the output directory, as the merge counts them
AllPdf(d) ==
    {q \in rglob_pdf(d, <<>>) : q \in DOMAIN d.files}

\* C3 -- merge conservation: no step changes the number of PDF files under
\* the output directory, whether a merge succeeds, is skipped or aborts
\* part-way, and after a merge that succeeded the folder merged from is
\* gone.
C3_MergeConservation ==
    [][/\ Cardinality(AllPdf(disk')) = Cardinality(AllPdf(disk))
       /\ (pc = "merge" /\ merge_log'.returned)
             => ~PathExists(disk', merge_log'.merge_folder)]_vars

\* where the file of the folder merged from is to go in the folder kept
TargetPath(keep_folder, merge_folder, item) ==
    keep_folder \o SubSeq(item, Len(merge_folder) + 1, Len(item))

\* <stem>_k<ext> beside path p
BesidePath(p, k) ==
    Append(Parent(p),
           path_stem(p[Len(p)]) \o <<"_">> \o str(k) \o path_suffix(p[Len(p)]))

\* the files of the folder merged from
FilesToMerge(d, merge_folder) ==
    {q \in DOMAIN d.files : IsPrefix(merge_folder, q)}

\* the file `item` is, after the merge, at <stem>_k<ext> beside its target
\* for a k >= 1 with every smaller one taken; k = 1 when it is the only
\* file merged and <stem>_1<ext> was free
StoredBeside(keep_folder, merge_folder, item) ==
    \E k \in 1..(Cardinality(DOMAIN disk.files) + 1) :
       LET target_path == TargetPath(keep_folder, merge_folder, item)
       IN  /\ BesidePath(target_path, k) \in DOMAIN disk'.files
           /\ disk'.files[BesidePath(target_path, k)] = disk.files[item]
           /\ \A j \in 1..(k - 1) :
                 PathExists(disk', BesidePath(target_path, j))
           /\ (/\ Cardinality(FilesToMerge(disk, merge_folder)) = 1
               /\ ~PathExists(disk, BesidePath(target_path, 1)))
                 => k = 1

\* C4 -- a merge never overwrites: every file of the kept folder is after
\* the merge where it was, with its content, also when the merge aborts;
\* and after a merge that succeeded every file whose relative path existed
\* in the kept folder is stored beside it as <stem>_k<ext>, for the
\* smallest k >= 1 whose path was free.
C4_NeverOverwrites ==
    [][(pc = "merge" /\ merge_log'.keep_folder # None) =>
          /\ \A q \in DOMAIN disk.files :
                IsPrefix(merge_log'.keep_folder, q) =>
                   /\ q \in DOMAIN disk'.files
                   /\ disk'.files[q] = disk.files[q]
          /\ merge_log'.returned =>
                \A item \in FilesToMerge(disk, merge_log'.merge_folder) :
                   PathExists(disk, TargetPath(merge_log'.keep_folder,
                                               merge_log'.merge_folder, item))
                      => StoredBeside(merge_log'.keep_folder,
                                      merge_log'.merge_folder, item)]_vars

\* a merge has stored a file a.pdf of the folder merged from as a_2.pdf,
\* a.pdf and a_1.pdf being taken in the folder kept
C4_Witness ==
    /\ merge_log.returned
    /\ \E q \in DOMAIN disk.files :
          /\ IsPrefix(merge_log.keep_folder, q)
          /\ q[Len(q)] = <<"a", "_", "2", ".", "p", "d", "f">>
          /\ IsPrefix(merge_log.merge_folder, disk.files[q])
          /\ disk.files[q][Len(disk.files[q])] = <<"a", ".", "p", "d", "f">>

\* the folders f and g are duplicates: the similarity of the normalized
\* names reconstructed from them is above 0.85
DuplicateFolders(f, g) ==
    ScoreGT(Similarity(Normalized(folder_name_to_company_name(f)),
                       Normalized(folder_name_to_company_name(g))),
            merge_threshold)

\* C5 -- start-up merges all duplicated folders: when the constructor has
\* finished on an existing output directory with auto-merge enabled and no
\* merge has raised, no two folders left (other than "Unknown") are
\* duplicates and the registry holds one company per folder left.
C5_StartupMergesAll ==
    (/\ pc = "ready"
     /\ calls = 0
     /\ output_dir = "out"
     /\ disk.exists
     /\ auto_merge_duplicates
     /\ ~fs_error)
       => /\ \A f, g \in company_folders(disk) :
                f # g => ~DuplicateFolders(f, g)
          /\ Len(company_mappings) = Cardinality(company_folders(disk))


(***************************************************************************)
(* Properties of a session: the calls of normalize_company_name and        *)
(* get_folder_name made on one normalizer after its construction.  A step  *)
(* that sets last to a get_folder_name record is one call of it: last'.raw *)
(* is its argument and last'.result the folder name it returns.            *)
(***************************************************************************)
FolderCall ==
    last' # last /\ last'.op = "get_folder_name"

registry_after ==
    [company_mappings |-> company_mappings',
     normalized_to_canonical |-> normalized_to_canonical']

\* C11: get_folder_name(c) returns the folder_name of the mapping registered
\* under lower(c) when there is one and the sanitized c otherwise, whatever
\* name it is given, and it leaves the registry as it was.
C11_FolderNameTotal ==
    [][FolderCall =>
          /\ RegistryUnchanged
          /\ \A i \in DOMAIN company_mappings :
                 company_mappings[i].key = lower(last'.raw)
                     => last'.result = company_mappings[i].value.folder_name
          /\ (\A i \in DOMAIN company_mappings :
                  company_mappings[i].key # lower(last'.raw))
                 => last'.result = sanitize_name(last'.raw)]_vars

\* a name found under its lower case, whose folder (taken from the disk) is
\* not what sanitizing the name gives
C11_Witness ==
    /\ last.op = "get_folder_name"
    /\ last.branch = "mapped"
    /\ ~DictHas(company_mappings, last.raw)
    /\ last.result # sanitize_name(last.raw)

\* C15: no call of normalize_company_name or get_folder_name removes a
\* registered company or a variation of one: every key stays, with at
\* least the variations it had.
C15_MappingsNeverLost ==
    [][(IsCall \/ FolderCall) =>
          \A i \in DOMAIN company_mappings :
              \E j \in DOMAIN company_mappings' :
                  /\ company_mappings'[j].key = company_mappings[i].key
                  /\ company_mappings[i].value.variations
                         \subseteq company_mappings'[j].value.variations]_vars

\* C16: a call of normalize_company_name changes the folder name of no
\* registered canonical name: get_folder_name answers after the call what
\* it answered before it.
C16_FolderNameImmutable ==
    [][IsCall =>
          \A c \in canonical_names(company_mappings) :
              get_folder_name(registry_after, c) = get_folder_name(registry, c)
      ]_vars

\* C17: a call of normalize_company_name on a name an earlier call of the
\* session was made on returns what that call returned.
C17_StableInSession ==
    [][IsCall =>
          \A r \in resolved :
              r.raw = last'.raw => r.result = last'.result]_vars


(***************************************************************************)
(* Properties of the construction: the scan, the merges and the rescan.    *)
(***************************************************************************)
\* C19: when construction has completed, the registry is what a scan of the
\* directory as the merges left it gives (for some order of its listing),
\* whether merges succeeded, failed or were not tried, and every folder_name
\* of the registry is a directory of the output directory.
C19_RegistryEqualsDisk ==
    (pc = "ready" /\ calls = 0) =>
        /\ \E order \in Orders(company_folders(disk)) :
               registry =
                   IF output_dir = "None" THEN EmptyRegistry
                   ELSE scan_existing_companies(EmptyRegistry, disk, order)
        /\ \A i \in DOMAIN company_mappings :
               <<company_mappings[i].value.folder_name>> \in disk.dirs

\* construction completed after one merge succeeded and another one raised
C19_Witness ==
    /\ pc = "ready"
    /\ calls = 0
    /\ merged_count > 0
    /\ fs_error
    /\ company_mappings # <<>>

\* the regular files named *.pdf below a company folder
pdf_files(d, folder) ==
    {q \in DOMAIN d.files :
        /\ IsPrefix(<<folder>>, q)
        /\ q # <<folder>>
        /\ EndsWith(q[Len(q)], <<".", "p", "d", "f">>)}

\* a call of _merge_company_folders that found both folders
MergeStep ==
    pc = "merge" /\ merge_log'.called /\ merge_log'.keep_folder # None

\* C20: a merge keeps the folder with strictly more PDF files at that time;
\* on equal counts the first folder of the pair unless its canonical name is
\* the longer one; and files move only from the other folder into the kept
\* one: every other file stays where it is, with its content.
C20_KeepFolderRule ==
    [][MergeStep =>
          LET company1 == Head(duplicates).company1
              company2 == Head(duplicates).company2
              count1 == Cardinality(pdf_files(disk, company1.folder_name))
              count2 == Cardinality(pdf_files(disk, company2.folder_name))
              kept == merge_log'.keep_folder
              other == merge_log'.merge_folder
          IN  /\ count1 > count2 =>
                     kept = <<company1.folder_name>>
              /\ count2 > count1 =>
                     kept = <<company2.folder_name>>
              /\ count1 = count2 =>
                     kept = IF Len(company1.canonical_name)
                                   <= Len(company2.canonical_name)
                            THEN <<company1.folder_name>>
                            ELSE <<company2.folder_name>>
              /\ {kept, other} = {<<company1.folder_name>>,
                                  <<company2.folder_name>>}
              /\ \A q \in DOMAIN disk.files :
                     ~IsPrefix(other, q) =>
                         /\ q \in DOMAIN disk'.files
                         /\ disk'.files[q] = disk.files[q]
              /\ \A q \in DOMAIN disk'.files :
                     (q \notin DOMAIN disk.files
                          \/ disk'.files[q] # disk.files[q]) =>
                         /\ IsPrefix(kept, q)
                         /\ \E p \in DOMAIN disk.files :
                                /\ IsPrefix(other, p)
                                /\ disk.files[p] = disk'.files[q]]_vars

\* a merge that kept the folder with the longer name and removed the other:
\* the count of PDF files decided, not the length of the names
C20_Witness ==
    /\ merge_log.called
    /\ merge_log.returned
    /\ Len(merge_log.keep_folder[1]) > Len(merge_log.merge_folder[1])
    /\ ~PathExists(disk, merge_log.merge_folder)


(***************************************************************************)
(* Properties of FileOrganizer.  A step that appends to the history is a   *)
(* call of organize_file that returned: the entry holds the path returned. *)
(***************************************************************************)
Organized ==
    Len(organization_history') = Len(organization_history) + 1

\* C12: organize_file never overwrites: the path it returns held nothing,
\* it is the generated path when that was free and otherwise <stem>_k<ext>
\* for the smallest k >= 1 that was free, every file that was there keeps
\* its place and content, and the document is at the path returned.
C12_OrganizeNeverOverwrites ==
    [][Organized =>
          LET entry == organization_history'[Len(organization_history')]
              new_path == entry.new_path
              generated == Append(Parent(new_path),
                                  generate_filename(entry.doc_info))
          IN  /\ ~PathExists(disk, new_path)
              /\ IF ~PathExists(disk, generated) THEN new_path = generated
                 ELSE \E k \in 1..(Cardinality(DOMAIN disk.files) + 1) :
                         /\ new_path = BesidePath(generated, k)
                         /\ \A j \in 1..(k - 1) :
                                PathExists(disk, BesidePath(generated, j))
              /\ \A q \in DOMAIN disk.files :
                     /\ q \in DOMAIN disk'.files
                     /\ disk'.files[q] = disk.files[q]
              /\ new_path \in DOMAIN disk'.files
              /\ disk'.files[new_path] = inbox[entry.original_path]
              /\ organizer_log'.new_path = new_path]_vars

\* a document stored as <stem>_2.pdf: the generated path and <stem>_1.pdf
\* were both taken
C12_Witness ==
    /\ organizer_log.op = "organize"
    /\ ~organizer_log.raised
    /\ EndsWith(organizer_log.new_path[Len(organizer_log.new_path)],
                <<"_", "2", ".", "p", "d", "f">>)
    /\ PathExists(disk, Append(Parent(organizer_log.new_path),
                               generate_filename(
                                   analyze_document(organizer_log.content))))

\* a call of undo_organization that found the file
Undone ==
    organizer_log'.op = "undo" /\ disk' # disk

\* C13: when the file organize_file moved from p to q is at q,
\* undo_organization(q, p) puts it back at p with its content, leaves
\* nothing at q and no empty directory on the way from q up to the output
\* directory, which stays, and touches no other file.
C13_UndoInverse ==
    [][(Undone /\ ~copy_files
           /\ disk.files[organizer_log'.new_path]
                  = <<input_dir, organizer_log'.original_path>>) =>
          LET q == organizer_log'.new_path
              p == organizer_log'.original_path
          IN  /\ p \in DOMAIN inbox'
              /\ inbox'[p] = <<input_dir, p>>
              /\ ~PathExists(disk', q)
              /\ \A dir \in Prefixes(Parent(q)) :
                     dir \in disk'.dirs => has_entries(disk', dir)
              /\ disk'.exists
              /\ disk'.dirs \subseteq disk.dirs
              /\ \A r \in DOMAIN disk.files \ {q} :
                     /\ r \in DOMAIN disk'.files
                     /\ disk'.files[r] = disk.files[r]]_vars

\* the dated document undone in a directory that held nothing else: the
\* month, the year and the company folder are gone, the file is back
C13_Witness ==
    /\ organizer_log.op = "undo"
    /\ ~copy_files
    /\ Len(organizer_log.new_path) = 4
    /\ <<organizer_log.new_path[1]>> \notin disk.dirs
    /\ organizer_log.original_path \in DOMAIN inbox

\* C18: a document of a company that an earlier session stored under the
\* folder F is stored under F again by a later session that found F in the
\* output directory.
C18_StableAcrossSessions ==
    [][(Organized /\ session = "later") =>
          LET entry == organization_history'[Len(organization_history')]
          IN  \A r \in earlier :
                  (/\ r.company_name = entry.doc_info.company_name
                   /\ <<r.folder>> \in disk.dirs)
                      => entry.new_path[1] = r.folder]_vars

\* C14: whatever the two handlers do at once, a document stays at the path
\* organize_file returned for it: no later call stores another document
\* over it.
C14_NoDocumentOverwritten ==
    \A i \in DOMAIN organization_history :
        LET entry == organization_history[i]
        IN  /\ entry.new_path \in DOMAIN disk.files
            /\ disk.files[entry.new_path] = <<input_dir, entry.original_path>>

(***************************************************************************)
(* Properties of the merge pass as a whole                                 *)
(***************************************************************************)
\* the pair at the head of the list has lost one of its folders
FolderMissing ==
    LET dup == Head(duplicates)
    IN  \/ ~PathExists(disk, <<dup.company1.folder_name>>)
        \/ ~PathExists(disk, <<dup.company2.folder_name>>)

\* C21: every pair of the list is attempted in its turn, whatever came of
\* the pairs before it: a pair that has lost a folder is skipped and leaves
\* the disk as it was, a merge that raises ends alone, and the pass goes on
\* to the next pair or, after the last, to the end of the construction.
C21_MergeFailuresIsolated ==
    [][pc = "merge" =>
          /\ merge_log'.called
          /\ duplicates' = Tail(duplicates)
          /\ FolderMissing =>
                 (disk' = disk /\ ~merge_log'.returned /\ ~merge_log'.raised)
          /\ Tail(duplicates) # <<>> => pc' = "merge"
          /\ Tail(duplicates) = <<>> => pc' \in {"rescan", "ready"}]_vars

\* one pair was skipped and one merge raised, and the pass has reached the
\* end of the construction
C21_Witness ==
    /\ pc = "ready"
    /\ fs_error
    /\ merge_log.called
    /\ ~merge_log.returned
    /\ ~merge_log.raised

\* normalize_company_name, given the name of company2 while only company1
\* is registered, finds company1 by fuzzy match
MatchesAtRuntime(company1, company2) ==
    find_fuzzy_match(<<[key |-> lower(company1.canonical_name),
                        value |-> company1]>>,
                     similarity_threshold, company2.canonical_name)
        = company1.canonical_name

\* C22: under the configured threshold, the two names of every pair the
\* merge pass holds to be duplicates are also names that
\* normalize_company_name matches to each other.
C22_MergeStricterThanMatching ==
    \A i \in DOMAIN duplicates :
        /\ MatchesAtRuntime(duplicates[i].company1, duplicates[i].company2)
        /\ MatchesAtRuntime(duplicates[i].company2, duplicates[i].company1)

\* C23: when the constructor has finished and no merge has raised, the
\* files that started in the two folders of a pair found to be duplicates
\* are all under one folder.  (A file's content is the path it started at.)
C23_DuplicatePairsTogether ==
    (pc = "ready" /\ ~fs_error) =>
        \A i \in DOMAIN identified :
            LET pair == {identified[i].company1.folder_name,
                         identified[i].company2.folder_name}
            IN  \A p, q \in DOMAIN disk.files :
                    (disk.files[p][1] \in pair /\ disk.files[q][1] \in pair)
                        => p[1] = q[1]

(***************************************************************************)
(* Properties of the registry in every state                               *)
(***************************************************************************)
\* C24: no two registered companies have the same folder_name.
C24_OneFolderPerCompany ==
    \A i, j \in DOMAIN company_mappings :
        i # j => company_mappings[i].value.folder_name
                     # company_mappings[j].value.folder_name

\* C25: when the constructor has finished without a failed merge, the
\* registry holds for every folder D of the output directory other than
\* "Unknown" a mapping with folder_name D, the canonical name made from D
\* and the variations {canonical name, D}, and holds no other mapping; on
\* a missing output directory it is empty.
C25_ScanRegistersEveryFolder ==
    (pc = "ready" /\ calls = 0 /\ output_dir = "out" /\ ~fs_error) =>
        /\ \A D \in company_folders(disk) :
               \E i \in DOMAIN company_mappings :
                   LET mapping == company_mappings[i].value
                   IN  /\ mapping.folder_name = D
                       /\ mapping.canonical_name
                              = folder_name_to_company_name(D)
                       /\ mapping.variations = {mapping.canonical_name, D}
        /\ \A i \in DOMAIN company_mappings :
               company_mappings[i].value.folder_name
                   \in company_folders(disk)
        /\ ~disk.exists => company_mappings = <<>>

\* C26: in every state of the registry each mapping's variations hold its
\* canonical name and each mapping is stored under the lower case of its
\* canonical name.
C26_VariationsHoldCanonical ==
    \A i \in DOMAIN company_mappings :
        /\ company_mappings[i].value.canonical_name
               \in company_mappings[i].value.variations
        /\ company_mappings[i].key
               = lower(company_mappings[i].value.canonical_name)

\* a registry rebuilt after a merge, to which one call has added a company
\* and the next a variation by fuzzy match
C26_Witness ==
    /\ merged_count > 0
    /\ pc = "ready"
    /\ last.branch = "fuzzy"
    /\ Len(company_mappings) >= 2
    /\ \E i \in DOMAIN company_mappings :
           /\ company_mappings[i].value.canonical_name = last.result
           /\ last.raw \in company_mappings[i].value.variations
           /\ last.raw # last.result

(***************************************************************************)
(* Properties of the hosts                                                 *)
(***************************************************************************)
\* C27: a preview moves no file, makes no directory and no file in the
\* output directory and leaves the registry as it was.
C27_PreviewNoSideEffects ==
    [][(calls' = calls + 1 /\ organizer_log'.op = "preview") =>
          /\ disk' = disk
          /\ inbox' = inbox
          /\ company_mappings' = company_mappings
          /\ normalized_to_canonical' = normalized_to_canonical]_vars

(***************************************************************************)
(* Properties of the string functions                                      *)
(***************************************************************************)
\* the name ends with the entry, as a whole or after a space
EndsWithEntry(name, entry) ==
    /\ EndsWith(name, entry)
    /\ Len(name) > Len(entry) => name[Len(name) - Len(entry)] = " "

\* C28: what _normalize_name returns is lower case with its words one space
\* apart, begins with no article and ends with no entry of the suffix set;
\* it is empty for the empty name, and normalizing it again gives it back.
C28_NormalizeNameStrips ==
    last.op = "normalize_name" =>
        LET words == split(last.result)
        IN  /\ last.result = lower(last.result)
            /\ last.result = join(words, <<" ">>)
            /\ words # <<>> => words[1] \notin common_prefixes
            /\ \A entry \in common_suffixes :
                   ~EndsWithEntry(last.result, entry)
            /\ last.raw = <<>> => last.result = <<>>
            /\ normalize_name(last.result) = last.result

\* the same, the entries of more than one word left aside
SingleWordEntriesStripped ==
    last.op = "normalize_name" =>
        LET words == split(last.result)
        IN  /\ last.result = lower(last.result)
            /\ last.result = join(words, <<" ">>)
            /\ words # <<>> => words[1] \notin common_prefixes
            /\ \A entry \in common_suffixes :
                   Len(split(entry)) = 1 => ~EndsWithEntry(last.result, entry)
            /\ last.raw = <<>> => last.result = <<>>
            /\ normalize_name(last.result) = last.result

\* C29: what _sanitize_name returns is not empty, holds none of the
\* characters < > : " / \ | ? * and no whitespace and has no underscore at
\* either end; it is "Unknown" when nothing else is left of the name;
\* sanitizing it again gives it back; and the folder_name of every mapping
\* that normalize_company_name made is the sanitized canonical_name.
C29_SanitizeNameTotal ==
    /\ last.op = "sanitize_name" =>
           /\ last.result # <<>>
           /\ \A c \in Range(last.result) :
                  c \notin invalid_chars \cup Whitespace
           /\ last.result[1] # "_"
           /\ last.result[Len(last.result)] # "_"
           /\ (\A c \in Range(last.raw) :
                   c \in invalid_chars \cup Whitespace \cup {"_"})
                  => last.result = Unknown
           /\ sanitize_name(last.result) = last.result
    /\ \A i \in DOMAIN company_mappings :
           company_mappings[i].value.folder_name
               = sanitize_name(company_mappings[i].value.canonical_name)

\* a name with a slash and an underscore to strip, sanitized after a call
\* of normalize_company_name has made a mapping
C29_Witness ==
    /\ last.op = "sanitize_name"
    /\ "/" \in Range(last.raw)
    /\ last.result \notin {Unknown, last.raw}
    /\ Len(last.result) < Len(last.raw)
    /\ company_mappings # <<>>

\* arithmetic on scores
ScoreEQ(x, y) ==
    x.num * y.den = y.num * x.den

ScorePlus(x, y) ==
    Score(x.num * y.den + y.num * x.den, x.den * y.den)

ScoreTimes(x, y) ==
    Score(x.num * y.num, x.den * y.den)

\* C30: the score of two normalized names is 0.0 when one is empty;
\* otherwise it is min(1.0, 0.6*basic + 0.3*overlap + bonus), basic the
\* ratio of the sequence matcher, overlap the Jaccard index of the word
\* sets and bonus 0.2 when overlap > 0.8 and 0.0 when not; it lies in
\* [0.0, 1.0] and is 1.0 for two equal names that are not empty.
C30_SimilarityScore ==
    last.op = "calculate_similarity" =>
        LET name1 == last.raw[1]
            name2 == last.raw[2]
            basic == Score(2 * matches(name1, name2), Len(name1) + Len(name2))
            words1 == Range(split(name1))
            words2 == Range(split(name2))
            overlap == Score(Cardinality(words1 \cap words2),
                             Cardinality(words1 \cup words2))
            bonus == IF ScoreGT(overlap, Score(8, 10))
                     THEN Score(2, 10) ELSE Score(0, 1)
            sum == ScorePlus(ScorePlus(ScoreTimes(Score(6, 10), basic),
                                       ScoreTimes(Score(3, 10), overlap)),
                             bonus)
        IN  IF name1 = <<>> \/ name2 = <<>>
            THEN ScoreEQ(last.result, Score(0, 1))
            ELSE /\ ScoreEQ(last.result,
                            IF ScoreGT(sum, Score(1, 1)) THEN Score(1, 1)
                            ELSE sum)
                 /\ ScoreGE(last.result, Score(0, 1))
                 /\ ScoreGE(Score(1, 1), last.result)
                 /\ name1 = name2 => ScoreEQ(last.result, Score(1, 1))

\* two different names of the same words: the bonus is given and the score
\* stays below 1.0
C30_Witness ==
    /\ last.op = "calculate_similarity"
    /\ last.raw[1] # last.raw[2]
    /\ Range(split(last.raw[1])) = Range(split(last.raw[2]))
    /\ ScoreGT(last.result, Score(8, 10))
    /\ ScoreGT(Score(1, 1), last.result)

=============================================================================
